---- MODULE Spec2Model ----
(***************************************************************************)
(* Masjid-Receipts: the receipt store (receipts, tags, receipt_tags,       *)
(* users) and the listing, search and report endpoints over it.            *)
(*                                                                         *)
(* Conventions of the model                                                *)
(*  - A money amount is an integer number of thousandths of the currency   *)
(*    unit (100 = 0.10, 4 = 0.004), so that round(x, 2) is a real          *)
(*    operation: Round2 rounds to the nearest multiple of 10.              *)
(*  - An absent Optional[int] query parameter is 0 and an absent           *)
(*    Optional[str] is "": the handlers test them with `if x:` and both    *)
(*    None and 0 / "" are falsy.                                           *)
(*  - A query without ORDER BY returns its rows in an order the database   *)
(*    chooses: every order is a possible outcome.                          *)
(*  - resp is the response of the last request handled.                    *)
(*  - inflight is the report request that has issued its first query and   *)
(*    not yet returned, while other requests are served.                   *)
(***************************************************************************)
EXTENDS Integers, Sequences, FiniteSets, TLC

\* Set literals below are written in the order in which TLC keeps a set's
\* elements, so that every worker reads them as written.
VARIABLES users, receipts, tags, receipt_tags, next_receipt_id, next_tag_id, resp,
          inflight

vars == <<users, receipts, tags, receipt_tags, next_receipt_id, next_tag_id, resp, inflight>>
store == <<users, receipts, tags, receipt_tags, next_receipt_id, next_tag_id>>

\* ------------------------------------------------------------------ bounds
\* At most MaxReceipts receipts are ever uploaded, at most MaxTags tags created.
MaxReceipts == 2
MaxTags == 2

\* ------------------------------------------------------------- enumerations
\* class UserRole
IMAM == "imam"
FINANCE_SECRETARY == "finance_secretary"
AUDITOR == "auditor"
UserRole == <<IMAM, FINANCE_SECRETARY, AUDITOR>>

\* class PaymentMode, in declaration order: the member's value
PaymentMode == <<"cash", "card", "bank_transfer", "cheque", "other">>

\* The users table after three registrations (register creates active users).
SeedUsers ==
    { [id |-> 1, role |-> IMAM, is_active |-> TRUE],
      [id |-> 2, role |-> FINANCE_SECRETARY, is_active |-> TRUE],
      [id |-> 3, role |-> AUDITOR, is_active |-> TRUE] }

\* ------------------------------------------------------------------ helpers
RECURSIVE SumAmount(_)
SumAmount(rs) ==
    IF rs = {} THEN 0
    ELSE LET r == CHOOSE x \in rs : TRUE IN r.amount + SumAmount(rs \ {r})

RECURSIVE SumSeq(_)
SumSeq(s) == IF s = <<>> THEN 0 ELSE Head(s) + SumSeq(Tail(s))

\* All the orders in which a query can return the rows S.
RowOrders(S) ==
    { f \in [1..Cardinality(S) -> S] : \A i, j \in DOMAIN f : i # j => f[i] # f[j] }

\* round(x, 2) on thousandths: to the nearest multiple of 10.
Round2(x) == IF x >= 0 THEN ((x + 5) \div 10) * 10 ELSE -((((-x) + 5) \div 10) * 10)

\* sorted(rows, key=lambda x: x['total'], reverse=True): stable, descending.
RECURSIVE InsertDesc(_, _)
InsertDesc(sorted, g) ==
    IF sorted = <<>> THEN <<g>>
    ELSE IF Head(sorted).total >= g.total
         THEN <<Head(sorted)>> \o InsertDesc(Tail(sorted), g)
         ELSE <<g>> \o sorted

RECURSIVE SortDescByTotal(_)
SortDescByTotal(rows) ==
    IF rows = <<>> THEN <<>>
    ELSE InsertDesc(SortDescByTotal(SubSeq(rows, 1, Len(rows) - 1)), rows[Len(rows)])

\* ------------------------------------------------------------ strings
\* A string value is a TLA+ string; Chars gives the characters of each string
\* the model uses, on which lower(), upper(), strip(), LIKE and the ISO date
\* parser are computed.
Chars ==
    ("" :> <<>>) @@
    ("food" :> <<"f", "o", "o", "d">>) @@
    ("FOOD" :> <<"F", "O", "O", "D">>) @@
    ("oo" :> <<"o", "o">>) @@
    ("utilities" :> <<"u", "t", "i", "l", "i", "t", "i", "e", "s">>) @@
    ("zakat" :> <<"z", "a", "k", "a", "t">>) @@
    ("Zakat" :> <<"Z", "a", "k", "a", "t">>) @@
    ("zak" :> <<"z", "a", "k">>) @@
    ("missing" :> <<"m", "i", "s", "s", "i", "n", "g">>) @@
    ("bazaar" :> <<"b", "a", "z", "a", "a", "r">>) @@
    ("baz" :> <<"b", "a", "z">>) @@
    ("b_z" :> <<"b", "_", "z">>) @@
    ("cash" :> <<"c", "a", "s", "h">>) @@
    ("card" :> <<"c", "a", "r", "d">>) @@
    ("bank_transfer" :> <<"b", "a", "n", "k", "_", "t", "r", "a", "n", "s", "f", "e", "r">>) @@
    ("cheque" :> <<"c", "h", "e", "q", "u", "e">>) @@
    ("other" :> <<"o", "t", "h", "e", "r">>) @@
    ("CASH" :> <<"C", "A", "S", "H">>) @@
    ("CARD" :> <<"C", "A", "R", "D">>) @@
    ("BANK_TRANSFER" :> <<"B", "A", "N", "K", "_", "T", "R", "A", "N", "S", "F", "E", "R">>) @@
    ("CHEQUE" :> <<"C", "H", "E", "Q", "U", "E">>) @@
    ("OTHER" :> <<"O", "T", "H", "E", "R">>) @@
    (" Cash " :> <<" ", "C", "a", "s", "h", " ">>) @@
    ("Bank Transfer" :> <<"B", "a", "n", "k", " ", "T", "r", "a", "n", "s", "f", "e", "r">>) @@
    ("bank-transfer" :> <<"b", "a", "n", "k", "-", "t", "r", "a", "n", "s", "f", "e", "r">>) @@
    ("bitcoin" :> <<"b", "i", "t", "c", "o", "i", "n">>) @@
    ("2024-03-01" :> <<"2", "0", "2", "4", "-", "0", "3", "-", "0", "1">>) @@
    ("2024-07-15" :> <<"2", "0", "2", "4", "-", "0", "7", "-", "1", "5">>) @@
    ("2025-07-01" :> <<"2", "0", "2", "5", "-", "0", "7", "-", "0", "1">>) @@
    ("2024-13-01" :> <<"2", "0", "2", "4", "-", "1", "3", "-", "0", "1">>) @@
    ("03/01/2024" :> <<"0", "3", "/", "0", "1", "/", "2", "0", "2", "4">>) @@
    ("yesterday" :> <<"y", "e", "s", "t", "e", "r", "d", "a", "y">>)

UpperLetters == <<"A", "B", "C", "D", "E", "F", "G", "H", "I", "J", "K", "L", "M", "N", "O", "P", "Q", "R", "S", "T", "U", "V", "W", "X", "Y", "Z">>
LowerLetters == <<"a", "b", "c", "d", "e", "f", "g", "h", "i", "j", "k", "l", "m", "n", "o", "p", "q", "r", "s", "t", "u", "v", "w", "x", "y", "z">>
Digits == <<"0", "1", "2", "3", "4", "5", "6", "7", "8", "9">>

IndexIn(letters, c) ==
    IF \E i \in DOMAIN letters : letters[i] = c
    THEN CHOOSE i \in DOMAIN letters : letters[i] = c
    ELSE 0

AllChars ==
    { UpperLetters[i] : i \in DOMAIN UpperLetters } \cup { LowerLetters[i] : i \in DOMAIN LowerLetters }
    \cup { Digits[i] : i \in DOMAIN Digits } \cup {"/", "-", "%", "_", " "}

LowerChar ==
    [c \in AllChars |->
        IF IndexIn(UpperLetters, c) # 0 THEN LowerLetters[IndexIn(UpperLetters, c)] ELSE c]
UpperChar ==
    [c \in AllChars |->
        IF IndexIn(LowerLetters, c) # 0 THEN UpperLetters[IndexIn(LowerLetters, c)] ELSE c]

\* str.lower(), str.upper() on characters
Lower(cs) == [i \in DOMAIN cs |-> LowerChar[cs[i]]]
Upper(cs) == [i \in DOMAIN cs |-> UpperChar[cs[i]]]

\* str.strip() on characters: leading and trailing blanks removed
RECURSIVE LStrip(_)
LStrip(cs) == IF cs # <<>> /\ Head(cs) = " " THEN LStrip(Tail(cs)) ELSE cs
RECURSIVE RStrip(_)
RStrip(cs) ==
    IF cs # <<>> /\ cs[Len(cs)] = " " THEN RStrip(SubSeq(cs, 1, Len(cs) - 1)) ELSE cs
Strip(cs) == RStrip(LStrip(cs))

\* SQL LIKE on characters: % matches any run, _ any one character
RECURSIVE Like(_, _)
Like(text, pattern) ==
    IF pattern = <<>> THEN text = <<>>
    ELSE IF Head(pattern) = "%"
         THEN Like(text, Tail(pattern)) \/ (text # <<>> /\ Like(Tail(text), pattern))
    ELSE IF Head(pattern) = "_"
         THEN text # <<>> /\ Like(Tail(text), Tail(pattern))
    ELSE text # <<>> /\ Head(text) = Head(pattern) /\ Like(Tail(text), Tail(pattern))

\* column.ilike(f"%{needle}%")
ILikeContains(value, needle) ==
    Like(Lower(Chars[value]), <<"%">> \o Lower(Chars[needle]) \o <<"%">>)

\* ------------------------------------------------------------ _parse_payment_mode
\* PaymentMode member names, in declaration order (the values are PaymentMode)
PaymentModeName == <<"CASH", "CARD", "BANK_TRANSFER", "CHEQUE", "OTHER">>

NoMode == "invalid"

\* `s.lower() == mode.value.lower() or s.upper() == mode.name` for the i-th member
ModeMatches(s, i) ==
    \/ Lower(s) = Lower(Chars[PaymentMode[i]])
    \/ Upper(s) = Chars[PaymentModeName[i]]

\* `for mode in PaymentMode:` from the i-th member on: the first member that
\* matches, or NoMode when the loop ends and the function raises HTTP 400
RECURSIVE FirstModeFrom(_, _)
FirstModeFrom(s, i) ==
    IF i > Len(PaymentMode) THEN NoMode
    ELSE IF ModeMatches(s, i) THEN PaymentMode[i]
    ELSE FirstModeFrom(s, i + 1)

\* A parser that falls back to OTHER instead of raising.
parse_payment_mode_coerce(pm_str) ==
    LET mode == FirstModeFrom(Strip(Chars[pm_str]), 1)
    IN IF mode = NoMode THEN "other" ELSE mode

parse_payment_mode(pm_str) == FirstModeFrom(Strip(Chars[pm_str]), 1)

\* The detail of the HTTP 400 of _parse_payment_mode: the rejected string and
\* [m.value for m in PaymentMode]
InvalidModeDetail(pm_str) ==
    [error |-> "Invalid payment_mode", got |-> pm_str, expected |-> PaymentMode]

\* ------------------------------------------------------------ dates
NoDate == [year |-> 0, month |-> 0, day |-> 0, hour |-> 0]
\* datetime.utcnow() at the time of an upload
UtcNow == [year |-> 2025, month |-> 7, day |-> 1, hour |-> 12]

\* datetime.fromisoformat on a date string of the form YYYY-MM-DD: the date, or
\* NoDate when it raises ValueError.
\* The value of each digit character, -1 for the other characters
DigitOf == [c \in AllChars |-> IndexIn(Digits, c) - 1]

RECURSIVE DigitsValue(_)
DigitsValue(cs) ==
    IF cs = <<>> THEN 0
    ELSE 10 * DigitsValue(SubSeq(cs, 1, Len(cs) - 1)) + DigitOf[cs[Len(cs)]]

AllDigits(cs) == \A i \in DOMAIN cs : DigitOf[cs[i]] >= 0

DaysInMonth(year, month) ==
    IF month \in {4, 6, 9, 11} THEN 30
    ELSE IF month = 2
         THEN (IF (year % 4 = 0 /\ year % 100 # 0) \/ year % 400 = 0 THEN 29 ELSE 28)
    ELSE 31

fromisoformat(date_string) ==
    LET cs == Chars[date_string]
        y == SubSeq(cs, 1, 4)
        m == SubSeq(cs, 6, 7)
        d == SubSeq(cs, 9, 10)
    IN IF /\ Len(cs) = 10
          /\ cs[5] = "-" /\ cs[8] = "-"
          /\ AllDigits(y) /\ AllDigits(m) /\ AllDigits(d)
          /\ DigitsValue(y) >= 1
          /\ DigitsValue(m) \in 1..12
          /\ DigitsValue(d) \in 1..DaysInMonth(DigitsValue(y), DigitsValue(m))
       THEN [year |-> DigitsValue(y), month |-> DigitsValue(m), day |-> DigitsValue(d),
             hour |-> 0]
       ELSE NoDate

\* d1 <= d2 on dates
DateBefore(d1, d2) ==
    \/ d1.year < d2.year
    \/ d1.year = d2.year /\ d1.month < d2.month
    \/ d1.year = d2.year /\ d1.month = d2.month /\ d1.day < d2.day
    \/ d1.year = d2.year /\ d1.month = d2.month /\ d1.day = d2.day /\ d1.hour < d2.hour
DateLeq(d1, d2) == DateBefore(d1, d2) \/ d1 = d2

\* ------------------------------------------------------------ responses
NoBody == [kind |-> "none"]
NoArgs == [kind |-> "none"]

Response(op, u, args, status, detail, body) ==
    [op |-> op, viewer |-> u.id, args |-> args, status |-> status,
     detail |-> detail, body |-> body]

\* ------------------------------------------------------------ dependencies
\* get_current_active_user, then role_checker of require_role(*allowed_roles):
\* the status the dependency ends the request with, 200 when it lets it through.
role_checker_any(u, allowed) == IF ~u.is_active THEN 400 ELSE 200
role_checker(u, allowed) ==
    IF ~u.is_active THEN 400
    ELSE IF u.role \notin allowed THEN 403
    ELSE 200

AuthDetail(status) ==
    IF status = 400 THEN "Inactive user"
    ELSE IF status = 403 THEN "Not enough permissions"
    ELSE ""

ReportRoles == {FINANCE_SECRETARY, AUDITOR}

\* ------------------------------------------------------------ the store
\* No report request is between its queries
Idle == [op |-> "none"]

Init ==
    /\ users = SeedUsers
    /\ receipts = {}
    /\ tags = {}
    /\ receipt_tags = {}
    /\ next_receipt_id = 1
    /\ next_tag_id = 1
    /\ inflight = Idle
    /\ resp = [op |-> "none", viewer |-> 0, args |-> NoArgs, status |-> 0,
               detail |-> "", body |-> NoBody]

\* payment_mode: PaymentMode = Form(...): the form field is accepted when it
\* is the value of a member, as written
FormPaymentMode(payment_mode) ==
    \E i \in DOMAIN PaymentMode : PaymentMode[i] = payment_mode

\* upload_receipt without an image: a receipt_date that is absent ("") or does
\* not parse becomes utcnow().
upload_receipt(Uploaders, Amounts, Categories, Modes, Stores, DateStrings) ==
    \E u \in { x \in users : x.id \in Uploaders }, amount \in Amounts,
       category \in Categories, payment_mode \in Modes, store_name \in Stores,
       receipt_date \in DateStrings :
        /\ next_receipt_id <= MaxReceipts
        /\ LET parsed_date == IF receipt_date # "" /\ fromisoformat(receipt_date) # NoDate
                              THEN fromisoformat(receipt_date)
                              ELSE UtcNow
               db_receipt == [id |-> next_receipt_id, amount |-> amount,
                              category |-> category, payment_mode |-> payment_mode,
                              store_name |-> store_name, receipt_date |-> parsed_date,
                              uploaded_by |-> u.id]
           IN IF ~FormPaymentMode(payment_mode)
              THEN /\ resp' = Response("upload_receipt", u, [receipt_id |-> 0],
                                       422, "payment_mode", NoBody)
                   /\ UNCHANGED <<receipts, next_receipt_id>>
              ELSE /\ receipts' = receipts \cup {db_receipt}
                   /\ next_receipt_id' = next_receipt_id + 1
                   /\ resp' = Response("upload_receipt", u, [receipt_id |-> db_receipt.id],
                                       201, "", NoBody)
        /\ UNCHANGED <<users, tags, receipt_tags, next_tag_id, inflight>>

delete_receipt(Viewers, ReceiptIds) ==
    \E u \in { x \in users : x.id \in Viewers }, receipt_id \in ReceiptIds :
        LET auth == role_checker(u, {FINANCE_SECRETARY})
            found == { r \in receipts : r.id = receipt_id }
            args == [receipt_id |-> receipt_id]
        IN IF auth # 200
           THEN /\ resp' = Response("delete_receipt", u, args, auth, AuthDetail(auth), NoBody)
                /\ UNCHANGED <<store, inflight>>
           ELSE IF found = {}
           THEN /\ resp' = Response("delete_receipt", u, args, 404, "Receipt not found", NoBody)
                /\ UNCHANGED <<store, inflight>>
           ELSE /\ receipts' = receipts \ found
                /\ receipt_tags' = { rt \in receipt_tags : rt[1] # receipt_id }
                /\ resp' = Response("delete_receipt", u, args, 204, "", NoBody)
                /\ UNCHANGED <<users, tags, next_receipt_id, next_tag_id, inflight>>

create_tag(Viewers, Names) ==
    \E u \in { x \in users : x.id \in Viewers }, name \in Names :
        LET auth == role_checker(u, {FINANCE_SECRETARY})
            existing_tag == { t \in tags : t.name = name }
            args == [name |-> name]
        IN IF auth # 200
           THEN /\ resp' = Response("create_tag", u, args, auth, AuthDetail(auth), NoBody)
                /\ UNCHANGED <<store, inflight>>
           ELSE IF existing_tag # {}
           THEN /\ resp' = Response("create_tag", u, args, 400, "Tag already exists", NoBody)
                /\ UNCHANGED <<store, inflight>>
           ELSE /\ next_tag_id <= MaxTags
                /\ tags' = tags \cup {[id |-> next_tag_id, name |-> name]}
                /\ next_tag_id' = next_tag_id + 1
                /\ resp' = Response("create_tag", u, args, 201, "", NoBody)
                /\ UNCHANGED <<users, receipts, receipt_tags, next_receipt_id, inflight>>

\* An assignment that does not look whether the tag is already assigned.
assign_tag_to_receipt_unchecked(Viewers, ReceiptIds, TagIds) ==
    \E u \in { x \in users : x.id \in Viewers }, receipt_id \in ReceiptIds, tag_id \in TagIds :
        LET auth == role_checker(u, {FINANCE_SECRETARY})
            args == [receipt_id |-> receipt_id, tag_id |-> tag_id]
            fail(status, detail) ==
                /\ resp' = Response("assign_tag_to_receipt", u, args, status, detail, NoBody)
                /\ UNCHANGED <<store, inflight>>
        IN IF auth # 200 THEN fail(auth, AuthDetail(auth))
           ELSE IF \A r \in receipts : r.id # receipt_id THEN fail(404, "Receipt not found")
           ELSE IF \A t \in tags : t.id # tag_id THEN fail(404, "Tag not found")
           ELSE /\ receipt_tags' = receipt_tags \cup {<<receipt_id, tag_id>>}
                /\ resp' = Response("assign_tag_to_receipt", u, args, 200, "", NoBody)
                /\ UNCHANGED <<users, receipts, tags, next_receipt_id, next_tag_id, inflight>>

assign_tag_to_receipt(Viewers, ReceiptIds, TagIds) ==
    \E u \in { x \in users : x.id \in Viewers }, receipt_id \in ReceiptIds, tag_id \in TagIds :
        LET auth == role_checker(u, {FINANCE_SECRETARY})
            args == [receipt_id |-> receipt_id, tag_id |-> tag_id]
            fail(status, detail) ==
                /\ resp' = Response("assign_tag_to_receipt", u, args, status, detail, NoBody)
                /\ UNCHANGED <<store, inflight>>
        IN IF auth # 200 THEN fail(auth, AuthDetail(auth))
           ELSE IF \A r \in receipts : r.id # receipt_id THEN fail(404, "Receipt not found")
           ELSE IF \A t \in tags : t.id # tag_id THEN fail(404, "Tag not found")
           ELSE IF <<receipt_id, tag_id>> \in receipt_tags
                THEN fail(400, "Tag is already assigned to this receipt")
           ELSE /\ receipt_tags' = receipt_tags \cup {<<receipt_id, tag_id>>}
                /\ resp' = Response("assign_tag_to_receipt", u, args, 200, "", NoBody)
                /\ UNCHANGED <<users, receipts, tags, next_receipt_id, next_tag_id, inflight>>

unassign_tag_from_receipt(Viewers, ReceiptIds, TagIds) ==
    \E u \in { x \in users : x.id \in Viewers }, receipt_id \in ReceiptIds, tag_id \in TagIds :
        LET auth == role_checker(u, {FINANCE_SECRETARY})
            args == [receipt_id |-> receipt_id, tag_id |-> tag_id]
            fail(status, detail) ==
                /\ resp' = Response("unassign_tag_from_receipt", u, args, status, detail, NoBody)
                /\ UNCHANGED <<store, inflight>>
        IN IF auth # 200 THEN fail(auth, AuthDetail(auth))
           ELSE IF \A r \in receipts : r.id # receipt_id THEN fail(404, "Receipt not found")
           ELSE IF \A t \in tags : t.id # tag_id THEN fail(404, "Tag not found")
           ELSE IF <<receipt_id, tag_id>> \notin receipt_tags
                THEN fail(400, "Tag is not assigned to this receipt")
           ELSE /\ receipt_tags' = receipt_tags \ {<<receipt_id, tag_id>>}
                /\ resp' = Response("unassign_tag_from_receipt", u, args, 200, "", NoBody)
                /\ UNCHANGED <<users, receipts, tags, next_receipt_id, next_tag_id, inflight>>

delete_tag(Viewers, TagIds) ==
    \E u \in { x \in users : x.id \in Viewers }, tag_id \in TagIds :
        LET auth == role_checker(u, {FINANCE_SECRETARY})
            args == [tag_id |-> tag_id]
        IN IF auth # 200
           THEN /\ resp' = Response("delete_tag", u, args, auth, AuthDetail(auth), NoBody)
                /\ UNCHANGED <<store, inflight>>
           ELSE IF \A t \in tags : t.id # tag_id
           THEN /\ resp' = Response("delete_tag", u, args, 404, "Tag not found", NoBody)
                /\ UNCHANGED <<store, inflight>>
           ELSE /\ tags' = { t \in tags : t.id # tag_id }
                /\ receipt_tags' = { rt \in receipt_tags : rt[2] # tag_id }
                /\ resp' = Response("delete_tag", u, args, 204, "", NoBody)
                /\ UNCHANGED <<users, receipts, next_receipt_id, next_tag_id, inflight>>

\* ------------------------------------------- create_tag between its steps
\* The handler of create_tag looks the name up and inserts in two statements;
\* other requests are served between them.

\* Tag.name is unique at storage, compared case-sensitively: what an insert
\* of a tag of this name needs of the table.
UniqueName(name) == \A t \in tags : t.name # name

\* A lookup that answers a tag that exists as if it had just been created.
create_tag_get_or_create(Viewers, Names) ==
    \E u \in { x \in users : x.id \in Viewers }, name \in Names :
        LET auth == role_checker(u, {FINANCE_SECRETARY})
            existing_tag == { t \in tags : t.name = name }
            args == [name |-> name]
        IN /\ inflight = Idle
           /\ UNCHANGED store
           /\ IF auth # 200
              THEN /\ resp' = Response("create_tag", u, args, auth, AuthDetail(auth), NoBody)
                   /\ UNCHANGED inflight
              ELSE IF existing_tag # {}
              THEN /\ resp' = Response("create_tag", u, args, 201, "", NoBody)
                   /\ UNCHANGED inflight
              ELSE /\ inflight' = [op |-> "create_tag", step |-> "commit",
                                   viewer |-> u, args |-> args]
                   /\ UNCHANGED resp

\* existing_tag = db.query(Tag).filter(Tag.name == tag_data.name).first()
create_tag_existing_tag(Viewers, Names) ==
    \E u \in { x \in users : x.id \in Viewers }, name \in Names :
        LET auth == role_checker(u, {FINANCE_SECRETARY})
            existing_tag == { t \in tags : t.name = name }
            args == [name |-> name]
        IN /\ inflight = Idle
           /\ UNCHANGED store
           /\ IF auth # 200
              THEN /\ resp' = Response("create_tag", u, args, auth, AuthDetail(auth), NoBody)
                   /\ UNCHANGED inflight
              ELSE IF existing_tag # {}
              THEN /\ resp' = Response("create_tag", u, args, 400, "Tag already exists", NoBody)
                   /\ UNCHANGED inflight
              ELSE /\ inflight' = [op |-> "create_tag", step |-> "commit",
                                   viewer |-> u, args |-> args]
                   /\ UNCHANGED resp

\* db.add(db_tag); db.commit(): the insert, which the table refuses when the
\* name is stored by now; the exception is not caught and the request ends
\* with 500.
create_tag_commit ==
    /\ inflight.op = "create_tag" /\ inflight.step = "commit"
    /\ inflight' = Idle
    /\ IF ~UniqueName(inflight.args.name)
       THEN /\ resp' = Response("create_tag", inflight.viewer, inflight.args,
                                500, "Internal Server Error", NoBody)
            /\ UNCHANGED store
       ELSE /\ next_tag_id <= MaxTags
            /\ tags' = tags \cup {[id |-> next_tag_id, name |-> inflight.args.name]}
            /\ next_tag_id' = next_tag_id + 1
            /\ resp' = Response("create_tag", inflight.viewer, inflight.args, 201, "", NoBody)
            /\ UNCHANGED <<users, receipts, receipt_tags, next_receipt_id>>

\* ------------------------------------------------------------ queries
NoTag == [id |-> 0, name |-> ""]

\* query.first(): one of the rows, or None (NoTag) when there is none
First(rows) == IF rows = {} THEN {NoTag} ELSE rows

\* extract('month' | 'year', Receipt.receipt_date) == x, applied when x is truthy
FilterMonth(rs, month) == IF month # 0 THEN { r \in rs : r.receipt_date.month = month } ELSE rs
FilterYear(rs, year) == IF year # 0 THEN { r \in rs : r.receipt_date.year = year } ELSE rs

\* `if tag: query = query.filter(Receipt.tags.contains(tag))`
FilterTag(rs, tag) ==
    IF tag # NoTag THEN { r \in rs : <<r.id, tag.id>> \in receipt_tags } ELSE rs

\* SELECT key, sum(amount), count(id) ... GROUP BY key: the set of rows
GroupRows(rs, Key(_)) ==
    { [key |-> k,
       total |-> SumAmount({ r \in rs : Key(r) = k }),
       count |-> Cardinality({ r \in rs : Key(r) = k })] : k \in { Key(r) : r \in rs } }

ByCategory(r) == r.category
ByPaymentMode(r) == r.payment_mode
ByMonth(r) == r.receipt_date.month

\* Receipt.id.in_([r.id for r in receipts] if receipts else [0]), read from the table
IdsOrZero(rs) == IF rs # {} THEN { r.id : r \in rs } ELSE {0}
WithIdsUnfiltered(ids) == receipts
WithIds(ids) == { r \in receipts : r.id \in ids }

\* ------------------------------------------------------------ get_tally
\* The tag the tally resolves: by id when tag_id is given, else by name.
TallyTagRows(tag_id, tag_name) ==
    IF tag_id # 0 THEN { t \in tags : t.id = tag_id }
    ELSE { t \in tags : t.name = tag_name }

TallyFiltersApplied(month, year, tag_id, tag_name, tag) ==
    [month |-> month,
     year |-> year,
     tag_id |-> IF tag_id # 0 \/ tag_name # "" THEN tag_id ELSE 0,
     tag_name |-> IF tag_id = 0 /\ tag_name # "" THEN tag_name ELSE "",
     tag |-> IF tag_id # 0 \/ tag_name # "" THEN tag.name ELSE ""]

\* receipts = query.all()
TallyReceipts(month, year, tag_id, tag_name, tag) ==
    LET dated == FilterYear(FilterMonth(receipts, month), year)
    IN IF tag_id # 0 \/ tag_name # "" THEN FilterTag(dated, tag) ELSE dated

TallyTotal(matching) == Round2(SumAmount(matching))

TallyBody(month, year, tag_id, tag_name, tag, category_breakdown, payment_breakdown) ==
    LET matching == TallyReceipts(month, year, tag_id, tag_name, tag)
    IN [total_amount |-> TallyTotal(matching),
        receipt_count |-> Cardinality(matching),
        filters_applied |-> TallyFiltersApplied(month, year, tag_id, tag_name, tag),
        by_category |-> SortDescByTotal(category_breakdown),
        by_payment_mode |-> SortDescByTotal(payment_breakdown)]

get_tally(Viewers, Months, Years, TagIds, TagNames) ==
    \E u \in { x \in users : x.id \in Viewers }, month \in Months, year \in Years,
       tag_id \in TagIds, tag_name \in TagNames :
        LET auth == role_checker(u, ReportRoles)
            args == [month |-> month, year |-> year, tag_id |-> tag_id, tag_name |-> tag_name]
        IN /\ UNCHANGED <<store, inflight>>
           /\ IF auth # 200
              THEN resp' = Response("get_tally", u, args, auth, AuthDetail(auth), NoBody)
              ELSE \E tag \in First(TallyTagRows(tag_id, tag_name)) :
                     LET ids == IdsOrZero(TallyReceipts(month, year, tag_id, tag_name, tag))
                     IN \E category_breakdown \in RowOrders(GroupRows(WithIds(ids), ByCategory)),
                           payment_breakdown \in RowOrders(GroupRows(WithIds(ids), ByPaymentMode)) :
                          resp' = Response("get_tally", u, args, 200, "",
                                           TallyBody(month, year, tag_id, tag_name, tag,
                                                     category_breakdown, payment_breakdown))

\* ------------------------------------------------------------ arithmetic
Abs(n) == IF n >= 0 THEN n ELSE -n
Min(a, b) == IF a <= b THEN a ELSE b

\* n / d rounded to the nearest integer (d # 0); an exact half goes away from
\* zero (binary floating point decides such a tie by its representation error).
RoundDiv(n, d) ==
    LET sign == IF (n >= 0) = (d > 0) THEN 1 ELSE -1
    IN sign * ((2 * Abs(n) + Abs(d)) \div (2 * Abs(d)))

\* round(part / whole * 100, 1), in tenths of a percent
Percentage(part, whole) == RoundDiv(1000 * part, whole)

\* round(total / count, 2), in thousandths
Average2(total, count) == 10 * RoundDiv(total, 10 * count)

RECURSIVE MaxAmount(_)
MaxAmount(rs) ==
    LET r == CHOOSE x \in rs : TRUE
    IN IF rs = {r} THEN r.amount
       ELSE IF r.amount >= MaxAmount(rs \ {r}) THEN r.amount ELSE MaxAmount(rs \ {r})

RECURSIVE MinAmount(_)
MinAmount(rs) ==
    LET r == CHOOSE x \in rs : TRUE
    IN IF rs = {r} THEN r.amount
       ELSE IF r.amount <= MinAmount(rs \ {r}) THEN r.amount ELSE MinAmount(rs \ {r})

\* A lookup that creates the tag it does not find instead of answering 404
get_receipts_by_tag_or_create(Viewers, TagNames) ==
    \E u \in { x \in users : x.id \in Viewers }, tag_name \in TagNames :
        /\ next_tag_id <= MaxTags
        /\ \A t \in tags : t.name # tag_name
        /\ tags' = tags \cup {[id |-> next_tag_id, name |-> tag_name]}
        /\ next_tag_id' = next_tag_id + 1
        /\ resp' = Response("get_receipts_by_tag", u, [tag_name |-> tag_name], 200, "",
                            [receipts |-> {}])
        /\ UNCHANGED <<users, receipts, receipt_tags, next_receipt_id, inflight>>

\* ------------------------------------------------------------ get_receipts_by_tag
get_receipts_by_tag(Viewers, TagNames) ==
    \E u \in { x \in users : x.id \in Viewers }, tag_name \in TagNames :
        LET auth == role_checker(u, ReportRoles)
            args == [tag_name |-> tag_name]
        IN /\ UNCHANGED <<store, inflight>>
           /\ IF auth # 200
              THEN resp' = Response("get_receipts_by_tag", u, args, auth, AuthDetail(auth), NoBody)
              ELSE \E tag \in First({ t \in tags : t.name = tag_name }) :
                     IF tag = NoTag
                     THEN resp' = Response("get_receipts_by_tag", u, args, 404, "Tag not found", NoBody)
                     ELSE resp' = Response("get_receipts_by_tag", u, args, 200, "",
                                           [receipts |-> FilterTag(receipts, tag)])

\* ------------------------------------------------------------ get_monthly_breakdown
MonthNames ==
    <<"January", "February", "March", "April", "May", "June",
      "July", "August", "September", "October", "November", "December">>

\* The rows left in the order the query returned them
NoSortByMonth(months) == months

\* months.sort(key=lambda x: x['month']): stable, ascending
RECURSIVE InsertByMonth(_, _)
InsertByMonth(sorted, m) ==
    IF sorted = <<>> THEN <<m>>
    ELSE IF Head(sorted).month <= m.month
         THEN <<Head(sorted)>> \o InsertByMonth(Tail(sorted), m)
         ELSE <<m>> \o sorted

RECURSIVE SortByMonth(_)
SortByMonth(months) ==
    IF months = <<>> THEN <<>>
    ELSE InsertByMonth(SortByMonth(SubSeq(months, 1, Len(months) - 1)), months[Len(months)])

\* The rows of the monthly query for the year
MonthlyRows(year) == GroupRows({ r \in receipts : r.receipt_date.year = year }, ByMonth)

MonthEntry(row) ==
    [month |-> row.key, month_name |-> MonthNames[row.key],
     total |-> Round2(row.total), count |-> row.count]

MonthlyBody(year, monthly_data) ==
    [year |-> year,
     total_amount |-> Round2(SumSeq([i \in DOMAIN monthly_data |-> monthly_data[i].total])),
     months |-> SortByMonth([i \in DOMAIN monthly_data |-> MonthEntry(monthly_data[i])])]

get_monthly_breakdown(Viewers, Years) ==
    \E u \in { x \in users : x.id \in Viewers }, year \in Years :
        LET auth == role_checker(u, ReportRoles)
            args == [year |-> year]
        IN /\ UNCHANGED <<store, inflight>>
           /\ IF auth # 200
              THEN resp' = Response("get_monthly_breakdown", u, args, auth, AuthDetail(auth), NoBody)
              ELSE \E monthly_data \in RowOrders(MonthlyRows(year)) :
                     resp' = Response("get_monthly_breakdown", u, args, 200, "",
                                      MonthlyBody(year, monthly_data))

\* ------------------------------------------------------------ get_summary
SummaryTopN == 5
RecentN == 5

\* The outcome of an expression that divides: its value, or ZeroDivisionError
Value(v) == [ok |-> TRUE, value |-> v]
ZeroDivisionError == [ok |-> FALSE, value |-> 0]

\* (total_amount / total_receipts) if total_receipts > 0 else 0, then round(_, 2)
SummaryAverageUnguarded(total_amount, total_receipts) ==
    IF total_receipts = 0 THEN ZeroDivisionError
    ELSE Value(Average2(total_amount, total_receipts))
SummaryAverage(total_amount, total_receipts) ==
    IF total_receipts > 0 THEN Value(Average2(total_amount, total_receipts)) ELSE Value(0)

\* ORDER BY sum(amount) DESC LIMIT 5 over the category groups, from the order
\* the database breaks ties in
SummaryTopCategories(rows) ==
    SubSeq(SortDescByTotal(rows), 1, Min(SummaryTopN, Len(rows)))

ReceiptsByRole ==
    { [role |-> UserRole[i],
       count |-> Cardinality({ r \in receipts :
                     \E x \in users : x.id = r.uploaded_by /\ x.role = UserRole[i] })]
      : i \in { j \in DOMAIN UserRole :
                  \E r \in receipts, x \in users :
                      x.id = r.uploaded_by /\ x.role = UserRole[j] } }

\* ORDER BY created_at DESC LIMIT 5: created_at grows with the id
RECURSIVE NewestFirst(_)
NewestFirst(rs) ==
    IF rs = {} THEN <<>>
    ELSE LET r == CHOOSE x \in rs : \A y \in rs : y.id <= x.id
         IN <<r.id>> \o NewestFirst(rs \ {r})

SummaryBody(top_categories, average) ==
    [total_receipts |-> Cardinality(receipts),
     total_amount |-> Round2(SumAmount(receipts)),
     average_receipt |-> average,
     top_categories |-> SummaryTopCategories(top_categories),
     receipts_by_role |-> ReceiptsByRole,
     recent_receipts |-> SubSeq(NewestFirst(receipts), 1, Min(RecentN, Cardinality(receipts)))]

get_summary(Viewers) ==
    \E u \in { x \in users : x.id \in Viewers } :
        LET auth == role_checker(u, ReportRoles)
            average == SummaryAverage(SumAmount(receipts), Cardinality(receipts))
        IN /\ UNCHANGED <<store, inflight>>
           /\ IF auth # 200
              THEN resp' = Response("get_summary", u, NoArgs, auth, AuthDetail(auth), NoBody)
              ELSE IF ~average.ok
              THEN resp' = Response("get_summary", u, NoArgs, 500, "ZeroDivisionError", NoBody)
              ELSE \E top_categories \in RowOrders(GroupRows(receipts, ByCategory)) :
                     resp' = Response("get_summary", u, NoArgs, 200, "",
                                      SummaryBody(top_categories, average.value))

\* ------------------------------------------------------------ exports
\* The filters shared by export_receipts_to_excel and export_tally_to_excel
ExportTagRows(tag_name) == { t \in tags : t.name = tag_name }

ExportReceipts(month, year, tag_name, tag) ==
    LET dated == FilterYear(FilterMonth(receipts, month), year)
    IN IF tag_name # "" THEN FilterTag(dated, tag) ELSE dated

\* The sheet of export_receipts_to_excel: one row per receipt and the TOTAL row
export_receipts_to_excel(Viewers, Months, Years, TagNames) ==
    \E u \in { x \in users : x.id \in Viewers }, month \in Months, year \in Years,
       tag_name \in TagNames :
        LET auth == role_checker(u, ReportRoles)
            args == [month |-> month, year |-> year, tag_name |-> tag_name]
        IN /\ UNCHANGED <<store, inflight>>
           /\ IF auth # 200
              THEN resp' = Response("export_receipts_to_excel", u, args, auth,
                                    AuthDetail(auth), NoBody)
              ELSE \E tag \in First(ExportTagRows(tag_name)) :
                     LET matching == ExportReceipts(month, year, tag_name, tag)
                     IN resp' = Response("export_receipts_to_excel", u, args, 200, "",
                                         [rows |-> matching, total |-> SumAmount(matching)])

\* percentage = (float(total) / total_amount * 100) if total_amount > 0 else 0
ExportPercentage(total, total_amount) ==
    IF total_amount > 0 THEN Value(Percentage(total, total_amount)) ELSE Value(0)

ExportTallyRow(row, total_amount) ==
    [key |-> row.key, total |-> row.total, count |-> row.count,
     percentage |-> ExportPercentage(row.total, total_amount).value]

\* The two sheets of export_tally_to_excel: Summary and By Category
export_tally_to_excel(Viewers, Months, Years, TagNames) ==
    \E u \in { x \in users : x.id \in Viewers }, month \in Months, year \in Years,
       tag_name \in TagNames :
        LET auth == role_checker(u, ReportRoles)
            args == [month |-> month, year |-> year, tag_name |-> tag_name]
        IN /\ UNCHANGED <<store, inflight>>
           /\ IF auth # 200
              THEN resp' = Response("export_tally_to_excel", u, args, auth,
                                    AuthDetail(auth), NoBody)
              ELSE \E tag \in First(ExportTagRows(tag_name)) :
                     LET matching == ExportReceipts(month, year, tag_name, tag)
                         total_amount == SumAmount(matching)
                         rows == GroupRows(WithIds(IdsOrZero(matching)), ByCategory)
                     IN IF \E row \in rows : ~ExportPercentage(row.total, total_amount).ok
                        THEN resp' = Response("export_tally_to_excel", u, args, 500,
                                              "ZeroDivisionError", NoBody)
                        ELSE \E category_breakdown \in RowOrders(rows) :
                               resp' = Response("export_tally_to_excel", u, args, 200, "",
                                   [total_amount |-> total_amount,
                                    receipt_count |-> Cardinality(matching),
                                    by_category |->
                                        [i \in DOMAIN category_breakdown |->
                                            ExportTallyRow(category_breakdown[i], total_amount)]])

\* ------------------------------------------------------------ get_chart_data
ChartTopN == 5
category_colors == <<"#FF6384", "#36A2EB", "#FFCE56", "#4BC0C0", "#FF9F40", "#9966FF", "#FF6384">>
payment_colors == <<"#4BC0C0", "#FF9F40", "#9966FF", "#FF6384", "#36A2EB">>
ShortMonthNames ==
    <<"Jan", "Feb", "Mar", "Apr", "May", "Jun", "Jul", "Aug", "Sep", "Oct", "Nov", "Dec">>

ChartReceipts(month, year) == FilterYear(FilterMonth(receipts, month), year)

NoDataMarker ==
    [message |-> "No data available for the selected period",
     stats |-> [total_amount |-> 0, receipt_count |-> 0]]

\* round((float(total) / total_amount * 100), 1)
ChartPercentage(total, total_amount) ==
    IF total_amount = 0 THEN ZeroDivisionError ELSE Value(Percentage(total, total_amount))

\* sorted([...], key=lambda x: x['amount'], reverse=True)[:5]
ChartTopCategories(category_data, total_amount) ==
    LET sorted == SortDescByTotal(category_data)
    IN [i \in 1..Min(ChartTopN, Len(sorted)) |->
          [category |-> sorted[i].key, amount |-> sorted[i].total,
           percentage |-> ChartPercentage(sorted[i].total, total_amount).value]]

Pie(rows, palette) ==
    [labels |-> [i \in DOMAIN rows |-> rows[i].key],
     data |-> [i \in DOMAIN rows |-> rows[i].total],
     colors |-> SubSeq(palette, 1, Min(Len(rows), Len(palette)))]

NoTrend == [kind |-> "none"]

\* The monthly query of the chart when a year is given
ChartMonthlyRows(year) == GroupRows({ r \in receipts : r.receipt_date.year = year }, ByMonth)

MonthlyTrend(monthly_data) ==
    [labels |-> [i \in DOMAIN monthly_data |-> ShortMonthNames[monthly_data[i].key]],
     data |-> [i \in DOMAIN monthly_data |-> monthly_data[i].total]]

ChartStats(matching) ==
    [total_amount |-> Round2(SumAmount(matching)),
     receipt_count |-> Cardinality(matching),
     average_receipt |-> Average2(SumAmount(matching), Cardinality(matching)),
     largest_expense |-> Round2(MaxAmount(matching)),
     smallest_expense |-> Round2(MinAmount(matching))]

get_chart_data(Viewers, Months, Years) ==
    \E u \in { x \in users : x.id \in Viewers }, month \in Months, year \in Years :
        LET auth == role_checker(u, ReportRoles)
            args == [month |-> month, year |-> year]
            matching == ChartReceipts(month, year)
            total_amount == SumAmount(matching)
            ids == { r.id : r \in matching }
            category_rows == GroupRows(WithIds(ids), ByCategory)
        IN /\ UNCHANGED <<store, inflight>>
           /\ IF auth # 200
              THEN resp' = Response("get_chart_data", u, args, auth, AuthDetail(auth), NoBody)
              ELSE IF matching = {}
              THEN resp' = Response("get_chart_data", u, args, 200, "", NoDataMarker)
              ELSE IF \E row \in category_rows : ~ChartPercentage(row.total, total_amount).ok
              THEN resp' = Response("get_chart_data", u, args, 500, "ZeroDivisionError", NoBody)
              ELSE \E category_data \in RowOrders(category_rows),
                      payment_data \in RowOrders(GroupRows(WithIds(ids), ByPaymentMode)),
                      monthly_data \in RowOrders(IF year # 0 THEN ChartMonthlyRows(year) ELSE {}) :
                     resp' = Response("get_chart_data", u, args, 200, "",
                         [pie_chart_category |-> Pie(category_data, category_colors),
                          pie_chart_payment |-> Pie(payment_data, payment_colors),
                          bar_chart_monthly |->
                              IF year # 0 THEN MonthlyTrend(monthly_data) ELSE NoTrend,
                          top_categories |-> ChartTopCategories(category_data, total_amount),
                          stats |-> ChartStats(matching)])

\* ------------------------------------------- a report between its queries
\* The handlers of get_tally, export_tally_to_excel and get_chart_data issue
\* several queries in a row; other requests are served between them.  What a
\* later query of the same session sees depends on the isolation level of the
\* engine, which the repository does not fix: the table as it was at the
\* first query, or the table as committed by now.
Visible(seen) == {seen, receipts}

\* filter(Receipt.id.in_(ids)) evaluated on the table a later query sees
WithIdsIn(table, ids) == { r \in table : r.id \in ids }

\* receipts = query.all() of get_tally, and what the handler keeps of it
get_tally_receipts(Viewers, Months, Years, TagIds, TagNames) ==
    \E u \in { x \in users : x.id \in Viewers }, month \in Months, year \in Years,
       tag_id \in TagIds, tag_name \in TagNames :
        LET auth == role_checker(u, ReportRoles)
            args == [month |-> month, year |-> year, tag_id |-> tag_id, tag_name |-> tag_name]
        IN /\ inflight = Idle
           /\ UNCHANGED store
           /\ IF auth # 200
              THEN /\ resp' = Response("get_tally", u, args, auth, AuthDetail(auth), NoBody)
                   /\ UNCHANGED inflight
              ELSE \E tag \in First(TallyTagRows(tag_id, tag_name)) :
                     /\ inflight' = [op |-> "get_tally", step |-> "category_breakdown",
                                     viewer |-> u, args |-> args,
                                     filters_applied |->
                                         TallyFiltersApplied(month, year, tag_id, tag_name, tag),
                                     receipts |-> TallyReceipts(month, year, tag_id, tag_name, tag),
                                     seen |-> receipts,
                                     category_data |-> <<>>]
                     /\ UNCHANGED resp

\* category_breakdown = db.query(...).filter(Receipt.id.in_(...)).group_by(category).all()
get_tally_category_breakdown ==
    /\ inflight.op = "get_tally" /\ inflight.step = "category_breakdown"
    /\ UNCHANGED <<store, resp>>
    /\ \E table \in Visible(inflight.seen) :
         \E category_breakdown \in
                RowOrders(GroupRows(WithIdsIn(table, IdsOrZero(inflight.receipts)), ByCategory)) :
            inflight' = [inflight EXCEPT !.step = "payment_breakdown",
                                         !.category_data = category_breakdown]

\* payment_breakdown = db.query(...).group_by(payment_mode).all(), and the return
get_tally_payment_breakdown ==
    /\ inflight.op = "get_tally" /\ inflight.step = "payment_breakdown"
    /\ UNCHANGED store
    /\ inflight' = Idle
    /\ \E table \in Visible(inflight.seen) :
         \E payment_breakdown \in
                RowOrders(GroupRows(WithIdsIn(table, IdsOrZero(inflight.receipts)), ByPaymentMode)) :
            resp' = Response("get_tally", inflight.viewer, inflight.args, 200, "",
                        [total_amount |-> TallyTotal(inflight.receipts),
                         receipt_count |-> Cardinality(inflight.receipts),
                         filters_applied |-> inflight.filters_applied,
                         by_category |-> SortDescByTotal(inflight.category_data),
                         by_payment_mode |-> SortDescByTotal(payment_breakdown)])

\* receipts = query.all() of export_tally_to_excel
export_tally_receipts(Viewers, Months, Years, TagNames) ==
    \E u \in { x \in users : x.id \in Viewers }, month \in Months, year \in Years,
       tag_name \in TagNames :
        LET auth == role_checker(u, ReportRoles)
            args == [month |-> month, year |-> year, tag_name |-> tag_name]
        IN /\ inflight = Idle
           /\ UNCHANGED store
           /\ IF auth # 200
              THEN /\ resp' = Response("export_tally_to_excel", u, args, auth,
                                       AuthDetail(auth), NoBody)
                   /\ UNCHANGED inflight
              ELSE \E tag \in First(ExportTagRows(tag_name)) :
                     /\ inflight' = [op |-> "export_tally_to_excel",
                                     step |-> "category_breakdown",
                                     viewer |-> u, args |-> args,
                                     receipts |-> ExportReceipts(month, year, tag_name, tag),
                                     seen |-> receipts]
                     /\ UNCHANGED resp

\* The category query of export_tally_to_excel and the two sheets
export_tally_category_breakdown ==
    /\ inflight.op = "export_tally_to_excel" /\ inflight.step = "category_breakdown"
    /\ UNCHANGED store
    /\ inflight' = Idle
    /\ LET total_amount == SumAmount(inflight.receipts)
       IN \E table \in Visible(inflight.seen) :
            \E category_breakdown \in
                   RowOrders(GroupRows(WithIdsIn(table, IdsOrZero(inflight.receipts)), ByCategory)) :
               resp' = Response("export_tally_to_excel", inflight.viewer, inflight.args,
                                200, "",
                           [total_amount |-> total_amount,
                            receipt_count |-> Cardinality(inflight.receipts),
                            by_category |->
                                [i \in DOMAIN category_breakdown |->
                                    ExportTallyRow(category_breakdown[i], total_amount)]])

\* receipts = query.all() of get_chart_data, and the early return on no data
get_chart_data_receipts(Viewers, Months, Years) ==
    \E u \in { x \in users : x.id \in Viewers }, month \in Months, year \in Years :
        LET auth == role_checker(u, ReportRoles)
            args == [month |-> month, year |-> year]
            matching == ChartReceipts(month, year)
        IN /\ inflight = Idle
           /\ UNCHANGED store
           /\ IF auth # 200
              THEN /\ resp' = Response("get_chart_data", u, args, auth, AuthDetail(auth), NoBody)
                   /\ UNCHANGED inflight
              ELSE IF matching = {}
              THEN /\ resp' = Response("get_chart_data", u, args, 200, "", NoDataMarker)
                   /\ UNCHANGED inflight
              ELSE /\ inflight' = [op |-> "get_chart_data", step |-> "category_data",
                                   viewer |-> u, args |-> args,
                                   receipts |-> matching, seen |-> receipts,
                                   category_data |-> <<>>, payment_data |-> <<>>]
                   /\ UNCHANGED resp

\* category_data = db.query(...).filter(Receipt.id.in_(...)).group_by(category).all()
get_chart_data_category_data ==
    /\ inflight.op = "get_chart_data" /\ inflight.step = "category_data"
    /\ UNCHANGED <<store, resp>>
    /\ \E table \in Visible(inflight.seen) :
         \E category_data \in
                RowOrders(GroupRows(WithIdsIn(table, { r.id : r \in inflight.receipts }),
                                    ByCategory)) :
            inflight' = [inflight EXCEPT !.step = "payment_data",
                                         !.category_data = category_data]

\* payment_data = db.query(...).group_by(payment_mode).all()
get_chart_data_payment_data ==
    /\ inflight.op = "get_chart_data" /\ inflight.step = "payment_data"
    /\ UNCHANGED <<store, resp>>
    /\ \E table \in Visible(inflight.seen) :
         \E payment_data \in
                RowOrders(GroupRows(WithIdsIn(table, { r.id : r \in inflight.receipts }),
                                    ByPaymentMode)) :
            inflight' = [inflight EXCEPT !.step = "monthly_data",
                                         !.payment_data = payment_data]

\* top_categories, stats, the monthly query when a year is given, and the return
get_chart_data_monthly_data ==
    /\ inflight.op = "get_chart_data" /\ inflight.step = "monthly_data"
    /\ UNCHANGED store
    /\ inflight' = Idle
    /\ LET u == inflight.viewer
           args == inflight.args
           total_amount == SumAmount(inflight.receipts)
           category_data == inflight.category_data
       IN IF \E i \in DOMAIN category_data :
                 ~ChartPercentage(category_data[i].total, total_amount).ok
          THEN resp' = Response("get_chart_data", u, args, 500, "ZeroDivisionError", NoBody)
          ELSE \E table \in Visible(inflight.seen) :
                 \E monthly_data \in
                        RowOrders(IF args.year # 0
                                  THEN GroupRows({ r \in table : r.receipt_date.year = args.year },
                                                 ByMonth)
                                  ELSE {}) :
                    resp' = Response("get_chart_data", u, args, 200, "",
                        [pie_chart_category |-> Pie(category_data, category_colors),
                         pie_chart_payment |-> Pie(inflight.payment_data, payment_colors),
                         bar_chart_monthly |->
                             IF args.year # 0 THEN MonthlyTrend(monthly_data) ELSE NoTrend,
                         top_categories |-> ChartTopCategories(category_data, total_amount),
                         stats |-> ChartStats(inflight.receipts)])

\* ------------------------------------------------------------ get_receipts
DefaultLimit == 100

\* `if current_user.role == UserRole.IMAM: query.filter(uploaded_by == current_user.id)`
ScopeNone(u, rs) == rs
Scope(u, rs) == IF u.role = IMAM THEN { r \in rs : r.uploaded_by = u.id } ELSE rs

\* An uploaded_by criterion that replaces the role restriction instead of
\* narrowing it.
ListFilteredUnscoped(rs, category, payment_mode, pm_enum, uploaded_by) ==
    { r \in (IF uploaded_by # 0 THEN receipts ELSE rs) :
        /\ category # "" => r.category = category
        /\ payment_mode # "" => r.payment_mode = pm_enum
        /\ uploaded_by # 0 => r.uploaded_by = uploaded_by }

\* The filters of get_receipts after the role restriction; pm_enum is the parsed mode
ListFiltered(rs, category, payment_mode, pm_enum, uploaded_by) ==
    { r \in rs :
        /\ category # "" => r.category = category
        /\ payment_mode # "" => r.payment_mode = pm_enum
        /\ uploaded_by # 0 => r.uploaded_by = uploaded_by }

\* query.offset(skip).limit(limit).all() on rows in the order the database returns
Page(rows, skip, limit) ==
    { rows[i] : i \in { j \in DOMAIN rows : j > skip /\ j <= skip + limit } }

get_receipts(Viewers, Skips, Limits, Categories, PaymentModes, UploadedBy) ==
    \E u \in { x \in users : x.id \in Viewers }, skip \in Skips, limit \in Limits,
       category \in Categories, payment_mode \in PaymentModes, uploaded_by \in UploadedBy :
        LET args == [skip |-> skip, limit |-> limit, category |-> category,
                     payment_mode |-> payment_mode, uploaded_by |-> uploaded_by]
            pm_enum == parse_payment_mode(payment_mode)
        IN /\ UNCHANGED <<store, inflight>>
           /\ IF payment_mode # "" /\ pm_enum = NoMode
              THEN resp' = Response("get_receipts", u, args, 400,
                                    InvalidModeDetail(payment_mode), NoBody)
              ELSE \E rows \in RowOrders(ListFiltered(Scope(u, receipts), category,
                                                     payment_mode, pm_enum, uploaded_by)) :
                     resp' = Response("get_receipts", u, args, 200, "",
                                      [receipts |-> Page(rows, skip, limit)])

\* get_receipt: Depends(get_current_user), the row by id, the imam's own only
get_receipt(Viewers, ReceiptIds) ==
    \E u \in { x \in users : x.id \in Viewers }, receipt_id \in ReceiptIds :
        LET args == [receipt_id |-> receipt_id]
            found == { r \in receipts : r.id = receipt_id }
        IN /\ UNCHANGED <<store, inflight>>
           /\ IF found = {}
              THEN resp' = Response("get_receipt", u, args, 404, "Receipt not found", NoBody)
              ELSE \E receipt \in found :
                     IF u.role = IMAM /\ receipt.uploaded_by # u.id
                     THEN resp' = Response("get_receipt", u, args, 403,
                                           "You can only view your own receipts", NoBody)
                     ELSE resp' = Response("get_receipt", u, args, 200, "",
                                           [receipt |-> receipt])

\* users.is_active cleared: no endpoint writes the column, the row is changed
\* in the database; get_current_active_user reads it.
deactivate_user(UserIds) ==
    \E u \in { x \in users : x.id \in UserIds /\ x.is_active } :
        /\ users' = (users \ {u}) \cup {[u EXCEPT !.is_active = FALSE]}
        /\ UNCHANGED <<receipts, tags, receipt_tags, next_receipt_id, next_tag_id,
                       resp, inflight>>

\* ------------------------------------------------------------ search_receipts
\* An Optional[float] criterion: {} when absent, {x} when given
SearchTagRows(tag_name) == { t \in tags : ILikeContains(t.name, tag_name) }

SearchFiltered(rs, c, tag, pm_enum) ==
    { r \in rs :
        /\ c.store_name # "" => ILikeContains(r.store_name, c.store_name)
        /\ c.category # "" => ILikeContains(r.category, c.category)
        /\ (c.tag_name # "" /\ tag # NoTag) => <<r.id, tag.id>> \in receipt_tags
        /\ \A min_amount \in c.min_amount : r.amount >= min_amount
        /\ \A max_amount \in c.max_amount : r.amount <= max_amount
        /\ (c.start_date # "" /\ fromisoformat(c.start_date) # NoDate)
              => DateLeq(fromisoformat(c.start_date), r.receipt_date)
        /\ (c.end_date # "" /\ fromisoformat(c.end_date) # NoDate)
              => DateLeq(r.receipt_date, fromisoformat(c.end_date))
        /\ c.payment_mode # "" => r.payment_mode = pm_enum }

search_receipts(Viewers, Criteria) ==
    \E u \in { x \in users : x.id \in Viewers }, c \in Criteria :
        LET pm_enum == parse_payment_mode(c.payment_mode)
        IN /\ UNCHANGED <<store, inflight>>
           /\ IF c.payment_mode # "" /\ pm_enum = NoMode
              THEN resp' = Response("search_receipts", u, c, 400,
                                    InvalidModeDetail(c.payment_mode), NoBody)
              ELSE \E tag \in First(IF c.tag_name # "" THEN SearchTagRows(c.tag_name) ELSE {}) :
                     resp' = Response("search_receipts", u, c, 200, "",
                                      [receipts |-> SearchFiltered(Scope(u, receipts), c, tag, pm_enum)])

\* The criteria records of search_receipts over the given values of each field
SearchCriteria(StoreNames, Categories, TagNames, MinAmounts, MaxAmounts,
               StartDates, EndDates, PaymentModes) ==
    [store_name : StoreNames, category : Categories, tag_name : TagNames,
     min_amount : MinAmounts, max_amount : MaxAmounts,
     start_date : StartDates, end_date : EndDates, payment_mode : PaymentModes]

\* ------------------------------------------------------------ specifications
\* Each specification runs the handlers over the inputs its claims are about.
ReceiptIds == 1..MaxReceipts
TagIds == 1..MaxTags

IsOk(op) == resp.op = op /\ resp.status = 200

\* The tally over a store of sub-cent receipts of March 2024 and receipts of
\* 0.10 dated at upload, in two categories and two payment modes, and a tag.
NextTally ==
    \/ upload_receipt({2}, {4}, {"food", "utilities"}, {"cash", "card"}, {""}, {"2024-03-01"})
    \/ upload_receipt({2}, {100}, {"food", "utilities"}, {"cash", "card"}, {""}, {""})
    \/ delete_receipt({2}, ReceiptIds)
    \/ create_tag({2}, {"zakat"})
    \/ assign_tag_to_receipt({2}, ReceiptIds, TagIds)
    \/ get_tally({2}, {0, 3}, {0, 2025}, {0, 1}, {"", "zakat"})

SpecTally == Init /\ [][NextTally]_vars

\* Listing and search with no filter criteria, by each role, over receipts of
\* the imam and of the finance secretary; get_receipts with its default page
\* and with a caller-chosen one.
NextScope ==
    \/ upload_receipt({1, 2}, {100}, {"food", "utilities"}, {"cash"}, {""}, {""})
    \/ delete_receipt({2}, ReceiptIds)
    \/ get_receipts({1, 2, 3}, {0, 1}, {1, DefaultLimit}, {""}, {""}, {0})
    \/ search_receipts({1, 2, 3}, SearchCriteria({""}, {""}, {""}, {{}}, {{}}, {""}, {""}, {""}))

SpecScope == Init /\ [][NextScope]_vars

\* Listing and search by the imam over receipts of the imam and of the finance
\* secretary: get_receipts under every combination of its criteria,
\* search_receipts under none, each one, each two and all eight of its criteria.
CriteriaCombos ==
    LET all == SearchCriteria({"", "baz"}, {"", "oo"}, {"", "zak"}, {{}, {100}}, {{}, {100}},
                              {"", "2024-03-01"}, {"", "2024-07-15"}, {"cash", ""})
        Given(c) ==
            (IF c.store_name # "" THEN 1 ELSE 0) + (IF c.category # "" THEN 1 ELSE 0)
            + (IF c.tag_name # "" THEN 1 ELSE 0) + (IF c.min_amount # {} THEN 1 ELSE 0)
            + (IF c.max_amount # {} THEN 1 ELSE 0) + (IF c.start_date # "" THEN 1 ELSE 0)
            + (IF c.end_date # "" THEN 1 ELSE 0) + (IF c.payment_mode # "" THEN 1 ELSE 0)
    IN { c \in all : Given(c) <= 2 \/ Given(c) = 8 }

NextCriteria ==
    \/ upload_receipt({1, 2}, {100}, {"food"}, {"cash"}, {"bazaar"}, {"2024-03-01"})
    \/ upload_receipt({1, 2}, {4}, {"utilities"}, {"card"}, {""}, {""})
    \/ create_tag({2}, {"zakat"})
    \/ assign_tag_to_receipt({2}, ReceiptIds, TagIds)
    \/ get_receipts({1}, {0}, {DefaultLimit}, {"", "food"}, {"", "CASH"}, {0, 1, 2})
    \/ search_receipts({1}, CriteriaCombos)

SpecCriteria == Init /\ [][NextCriteria]_vars

\* Every report operation called by each role.
NextAccess ==
    \/ upload_receipt({1, 2}, {100}, {"food"}, {"cash", "card"}, {""}, {"2024-03-01"})
    \/ create_tag({2}, {"zakat"})
    \/ assign_tag_to_receipt({2}, ReceiptIds, TagIds)
    \/ get_tally({1, 2, 3}, {0}, {0, 2024}, {0}, {""})
    \/ get_receipts_by_tag({1, 2, 3}, {"zakat"})
    \/ get_monthly_breakdown({1, 2, 3}, {2024})
    \/ get_summary({1, 2, 3})
    \/ export_receipts_to_excel({1, 2, 3}, {0}, {0}, {"", "zakat"})
    \/ export_tally_to_excel({1, 2, 3}, {0}, {0}, {""})
    \/ get_chart_data({1, 2, 3}, {0, 3}, {0})

SpecAccess == Init /\ [][NextAccess]_vars

\* The operations that take a tag filter, with tags that exist and tags that
\* do not.
NextTagFilter ==
    \/ upload_receipt({2}, {100}, {"food", "utilities"}, {"cash"}, {""}, {""})
    \/ create_tag({2}, {"zakat"})
    \/ assign_tag_to_receipt({2}, ReceiptIds, TagIds)
    \/ delete_tag({2}, TagIds)
    \/ get_tally({2}, {0}, {0}, {0, 1, 2}, {"", "zakat", "missing"})
    \/ search_receipts({2}, SearchCriteria({""}, {""}, {"", "zak", "missing"}, {{}}, {{}},
                                           {""}, {""}, {""}))
    \/ export_receipts_to_excel({2}, {0}, {0}, {"", "zakat", "missing"})
    \/ export_tally_to_excel({2}, {0}, {0}, {"", "zakat", "missing"})

SpecTagFilter == Init /\ [][NextTagFilter]_vars

\* Listing and search with payment_mode strings in several spellings.
NextPaymentMode ==
    \/ upload_receipt({1, 2}, {100}, {"food"}, {"cash", "other"}, {""}, {""})
    \/ get_receipts({1, 2}, {0}, {DefaultLimit}, {""},
                    {"OTHER", "cash", "", "zakat", "CASH", " Cash ", "bitcoin"}, {0})
    \/ search_receipts({1, 2}, SearchCriteria({""}, {"", "oo"}, {""}, {{}}, {{}}, {""}, {""},
                           {"OTHER", "cash", "", "zakat", "CASH", " Cash ", "bitcoin"}))

SpecPaymentMode == Init /\ [][NextPaymentMode]_vars

\* The monthly breakdown over receipts of March 2024, July 2024 and July 2025.
NextMonthly ==
    \/ upload_receipt({2}, {4, 100}, {"food"}, {"cash"}, {""}, {"", "2024-03-01", "2024-07-15"})
    \/ delete_receipt({2}, ReceiptIds)
    \/ get_monthly_breakdown({2}, {2024, 2025})

SpecMonthly == Init /\ [][NextMonthly]_vars

\* The ranked breakdowns over categories and payment modes whose totals can tie.
NextRanked ==
    \/ upload_receipt({2}, {100, 200}, {"food", "utilities"}, {"cash", "card"}, {""}, {""})
    \/ delete_receipt({2}, ReceiptIds)
    \/ get_tally({2}, {0}, {0}, {0}, {""})
    \/ get_summary({2})
    \/ get_chart_data({2}, {0}, {0})

SpecRanked == Init /\ [][NextRanked]_vars

\* Tally, monthly breakdown and summary over stores and filters that match
\* nothing, among others.
NextEmpty ==
    \/ upload_receipt({2}, {4, 100}, {"food"}, {"cash"}, {""}, {"", "2024-03-01"})
    \/ delete_receipt({2}, ReceiptIds)
    \/ get_tally({2}, {0, 3, 7}, {0, 2024}, {0}, {""})
    \/ get_monthly_breakdown({2}, {2024, 2025})
    \/ get_summary({2})

SpecEmpty == Init /\ [][NextEmpty]_vars

\* The chart and the tally export over amounts that can sum to zero.
NextChart ==
    \/ upload_receipt({2}, {-100, 0, 100}, {"food", "utilities"}, {"cash"}, {""},
                      {"", "2024-03-01"})
    \/ delete_receipt({2}, ReceiptIds)
    \/ get_chart_data({2}, {0, 3}, {0, 2024})
    \/ export_tally_to_excel({2}, {0, 3}, {0}, {""})

SpecChart == Init /\ [][NextChart]_vars

\* Uploads with negative, zero and positive amounts and with payment_mode
\* fields that are and are not member values
NextStored ==
    \/ upload_receipt({1, 2}, {-100, 0, 100}, {"food"}, {"cash", "other", "CASH", "bitcoin"},
                      {""}, {""})
    \/ delete_receipt({2}, ReceiptIds)
    \/ create_tag({2}, {"zakat"})
    \/ assign_tag_to_receipt({2}, ReceiptIds, TagIds)
    \/ unassign_tag_from_receipt({2}, ReceiptIds, TagIds)
    \/ delete_tag({2}, TagIds)
SpecStored == Init /\ [][NextStored]_vars

\* The store after three uploads, one in each of three categories, and the
\* chart of it and of what deletes leave of it
ThreeUploads ==
    { { [id |-> 1, amount |-> a1, category |-> "food", payment_mode |-> "cash",
         store_name |-> "", receipt_date |-> UtcNow, uploaded_by |-> 2],
        [id |-> 2, amount |-> a2, category |-> "utilities", payment_mode |-> "card",
         store_name |-> "", receipt_date |-> UtcNow, uploaded_by |-> 2],
        [id |-> 3, amount |-> a3, category |-> "zakat", payment_mode |-> "cash",
         store_name |-> "", receipt_date |-> UtcNow, uploaded_by |-> 1] } :
      a1 \in {100, 200}, a2 \in {100, 300}, a3 \in {100, 700} }

InitThreeUploads ==
    /\ users = SeedUsers
    /\ receipts \in ThreeUploads
    /\ tags = {}
    /\ receipt_tags = {}
    /\ next_receipt_id = 4
    /\ next_tag_id = 1
    /\ inflight = Idle
    /\ resp = [op |-> "upload_receipt", viewer |-> 1, args |-> [receipt_id |-> 3],
               status |-> 201, detail |-> "", body |-> NoBody]

NextPercentages ==
    \/ delete_receipt({2}, 1..3)
    \/ get_chart_data({2, 3}, {0, 7}, {0, 2025})
SpecPercentages == InitThreeUploads /\ [][NextPercentages]_vars

\* Listing and search by payment mode written with other case and separators
NextSpellings ==
    \/ upload_receipt({2}, {100}, {"food"}, {"cash", "bank_transfer"}, {""}, {""})
    \/ get_receipts({2, 3}, {0}, {DefaultLimit}, {""},
                    {"", "CASH", "BANK_TRANSFER", "Bank Transfer", "bank-transfer", "bitcoin"},
                    {0})
    \/ search_receipts({2, 3}, SearchCriteria({""}, {""}, {""}, {{}}, {{}}, {""}, {""},
                    {"", "CASH", "BANK_TRANSFER", "Bank Transfer", "bank-transfer", "bitcoin"}))
SpecSpellings == Init /\ [][NextSpellings]_vars

\* Search by date bounds that parse and that do not, over receipts dated at
\* midnight of a bound and at noon of the day of upload
NextDates ==
    \/ upload_receipt({1, 2}, {100}, {"food"}, {"cash"}, {""}, {"", "2024-03-01", "2024-07-15"})
    \/ delete_receipt({2}, ReceiptIds)
    \/ search_receipts({1, 2},
           SearchCriteria({""}, {""}, {""}, {{}}, {{}},
                          {"", "2024-03-01", "2024-07-15", "2024-13-01", "yesterday"},
                          {"", "2024-03-01", "2025-07-01", "03/01/2024"}, {""}))
SpecDates == Init /\ [][NextDates]_vars

\* Search under combinations of criteria over receipts that differ in store,
\* category, amount, payment mode and tags, the tags both matching "zak"
NextCompose ==
    \/ upload_receipt({2}, {100}, {"food"}, {"cash"}, {"bazaar"}, {""})
    \/ upload_receipt({2}, {200}, {"utilities"}, {"card"}, {""}, {""})
    \/ create_tag({2}, {"zakat", "zak"})
    \/ assign_tag_to_receipt({2}, ReceiptIds, TagIds)
    \/ search_receipts({2},
           SearchCriteria({"", "baz"}, {"", "oo"}, {"", "zak"}, {{}, {200}}, {{}}, {""}, {""},
                          {"cash", ""}))
SpecCompose == Init /\ [][NextCompose]_vars

\* Tallies under month, year and tag filters, the tag existing or not
NextEcho ==
    \/ upload_receipt({2}, {100}, {"food"}, {"cash"}, {""}, {"", "2024-03-01"})
    \/ create_tag({2}, {"zakat"})
    \/ assign_tag_to_receipt({2}, ReceiptIds, TagIds)
    \/ get_tally({2}, {0, 3}, {0, 2024}, {0, 1}, {"", "zakat", "missing"})
SpecEcho == Init /\ [][NextEcho]_vars

\* A chart request that has fetched receipts of up to eight categories and
\* the category rows, in the order of the receipts' ids, and goes on
EightCategories ==
    <<"food", "utilities", "zakat", "rent", "salaries", "repairs", "books", "charity">>

EightUploads ==
    { [id |-> i, amount |-> 100 * i, category |-> EightCategories[i],
       payment_mode |-> IF i % 2 = 0 THEN "cash" ELSE "card",
       store_name |-> "", receipt_date |-> UtcNow, uploaded_by |-> 2] :
      i \in DOMAIN EightCategories }

RECURSIVE RowsById(_)
RowsById(rs) ==
    IF rs = {} THEN <<>>
    ELSE LET r == CHOOSE x \in rs : \A y \in rs : x.id <= y.id
         IN <<[key |-> r.category, total |-> r.amount, count |-> 1]>> \o RowsById(rs \ {r})

InitChartInFlight ==
    /\ users = SeedUsers
    /\ receipts \in (SUBSET EightUploads) \ {{}}
    /\ tags = {}
    /\ receipt_tags = {}
    /\ next_receipt_id = Len(EightCategories) + 1
    /\ next_tag_id = 1
    /\ inflight = [op |-> "get_chart_data", step |-> "payment_data",
                   viewer |-> CHOOSE u \in SeedUsers : u.role = AUDITOR,
                   args |-> [month |-> 0, year |-> 0],
                   receipts |-> receipts, seen |-> receipts,
                   category_data |-> RowsById(receipts), payment_data |-> <<>>]
    /\ resp = [op |-> "upload_receipt", viewer |-> 2,
               args |-> [receipt_id |-> Len(EightCategories)],
               status |-> 201, detail |-> "", body |-> NoBody]

NextPalette ==
    \/ get_chart_data_payment_data
    \/ get_chart_data_monthly_data
SpecPalette == InitChartInFlight /\ [][NextPalette]_vars

\* Charts with and without a year over receipts of March and July 2024
NextTrend ==
    \/ upload_receipt({2}, {100}, {"food"}, {"cash"}, {""}, {"2024-03-01", "2024-07-15"})
    \/ delete_receipt({2}, 1..MaxReceipts)
    \/ get_chart_data({2, 3}, {0, 3}, {0, 2024})
SpecTrend == Init /\ [][NextTrend]_vars

\* Tags assigned to and removed from receipts, by the finance secretary and
\* by an imam, naming receipts and tags that exist and that do not
NextAssign ==
    \/ upload_receipt({2}, {100}, {"food"}, {"cash"}, {""}, {""})
    \/ create_tag({2}, {"zakat", "zak"})
    \/ assign_tag_to_receipt({1, 2}, ReceiptIds, TagIds)
    \/ unassign_tag_from_receipt({1, 2}, ReceiptIds, TagIds)
SpecAssign == Init /\ [][NextAssign]_vars

\* Tags created and deleted, one create_tag taken statement by statement
\* while other create_tag and delete_tag requests are served
NextUnique ==
    \/ create_tag({2}, {"zakat", "Zakat"})
    \/ create_tag_existing_tag({1, 2}, {"zakat", "Zakat"})
    \/ create_tag_commit
    \/ delete_tag({2}, TagIds)
SpecUnique == Init /\ [][NextUnique]_vars

\* Receipts read and added and reports asked for by users who are active
\* and by users whose is_active has been cleared
NextInactive ==
    \/ deactivate_user({1, 2, 3})
    \/ upload_receipt({1, 2}, {100}, {"food"}, {"cash"}, {""}, {""})
    \/ get_receipts({1, 2, 3}, {0}, {DefaultLimit}, {""}, {""}, {0})
    \/ search_receipts({1, 2, 3}, SearchCriteria({""}, {""}, {""}, {{}}, {{}}, {""}, {""}, {""}))
    \/ get_receipt({1, 2, 3}, ReceiptIds)
    \/ get_tally({2, 3}, {0}, {0}, {0}, {""})
    \/ get_receipts_by_tag({2, 3}, {"missing"})
    \/ get_monthly_breakdown({2, 3}, {2025})
    \/ get_summary({2, 3})
    \/ export_receipts_to_excel({2, 3}, {0}, {0}, {""})
    \/ export_tally_to_excel({2, 3}, {0}, {0}, {""})
    \/ get_chart_data({2, 3}, {0}, {0})
SpecInactive == Init /\ [][NextInactive]_vars

\* Every reading operation, succeeding and failing, among the writing ones
NextFrame ==
    \/ upload_receipt({1, 2}, {100}, {"food"}, {"cash"}, {""}, {""})
    \/ delete_receipt({2}, ReceiptIds)
    \/ create_tag({2}, {"zakat"})
    \/ assign_tag_to_receipt({2}, ReceiptIds, TagIds)
    \/ unassign_tag_from_receipt({2}, ReceiptIds, TagIds)
    \/ delete_tag({2}, TagIds)
    \/ get_tally({1, 2}, {0}, {0, 2025}, {0}, {"", "missing"})
    \/ get_receipts_by_tag({1, 2}, {"zakat", "missing"})
    \/ get_monthly_breakdown({1, 2}, {2025})
    \/ get_summary({1, 2})
    \/ export_receipts_to_excel({1, 2}, {0}, {0}, {""})
    \/ export_tally_to_excel({1, 2}, {0}, {0}, {""})
    \/ get_chart_data({1, 2}, {0}, {0})
    \/ get_receipts({1, 2}, {0}, {DefaultLimit}, {""}, {"", "bitcoin"}, {0})
    \/ search_receipts({1, 2}, SearchCriteria({""}, {""}, {""}, {{}}, {{}}, {"", "yesterday"},
                                              {""}, {"", "bitcoin"}))
SpecFrame == Init /\ [][NextFrame]_vars

\* Reports served step by step while receipts are uploaded, deleted and tagged
NextSnapshot ==
    \/ upload_receipt({2}, {100}, {"food", "utilities"}, {"cash"}, {""}, {""})
    \/ delete_receipt({2}, ReceiptIds)
    \/ create_tag({2}, {"zakat"})
    \/ assign_tag_to_receipt({2}, ReceiptIds, TagIds)
    \/ unassign_tag_from_receipt({2}, ReceiptIds, TagIds)
    \/ get_tally_receipts({1, 2}, {0}, {0}, {0}, {"", "zakat"})
    \/ get_tally_category_breakdown
    \/ get_tally_payment_breakdown
    \/ export_tally_receipts({1, 3}, {0}, {0}, {""})
    \/ export_tally_category_breakdown
    \/ get_chart_data_receipts({1, 3}, {0}, {0, 2025})
    \/ get_chart_data_category_data
    \/ get_chart_data_payment_data
    \/ get_chart_data_monthly_data
SpecSnapshot == Init /\ [][NextSnapshot]_vars

\* ------------------------------------------------------------ claims
SeqTotals(groups) == SumSeq([i \in DOMAIN groups |-> groups[i].total])
SeqCounts(groups) == SumSeq([i \in DOMAIN groups |-> groups[i].count])

UserById(id) == CHOOSE x \in users : x.id = id
ViewerRole == UserById(resp.viewer).role

ListsWithoutCriteria ==
    \/ /\ IsOk("get_receipts")
       /\ resp.args.category = "" /\ resp.args.payment_mode = "" /\ resp.args.uploaded_by = 0
    \/ /\ IsOk("search_receipts")
       /\ resp.args.store_name = "" /\ resp.args.category = "" /\ resp.args.tag_name = ""
       /\ resp.args.min_amount = {} /\ resp.args.max_amount = {}
       /\ resp.args.start_date = "" /\ resp.args.end_date = "" /\ resp.args.payment_mode = ""

\* C2 as stated: without filter criteria get_receipts and search_receipts return
\* to an imam only the imam's own receipts, and to a finance secretary or an
\* auditor every stored receipt.
C2_ScopeIsIdentityForStaff ==
    ListsWithoutCriteria =>
        IF ViewerRole = IMAM
        THEN \A r \in resp.body.receipts : r.uploaded_by = resp.viewer
        ELSE resp.body.receipts = receipts

\* C2 amended: without filter criteria an imam gets only the imam's own
\* receipts; a finance secretary or an auditor gets every stored receipt from
\* search_receipts, and from get_receipts the page of them that skip and limit
\* select: min(limit, max(0, n - skip)) of the n stored receipts.
C2_ScopeUpToPage ==
    ListsWithoutCriteria =>
        IF ViewerRole = IMAM
        THEN \A r \in resp.body.receipts : r.uploaded_by = resp.viewer
        ELSE IF resp.op = "search_receipts"
        THEN resp.body.receipts = receipts
        ELSE /\ resp.body.receipts \subseteq receipts
             /\ Cardinality(resp.body.receipts) =
                    Min(resp.args.limit,
                        IF Cardinality(receipts) > resp.args.skip
                        THEN Cardinality(receipts) - resp.args.skip ELSE 0)

\* The finance secretary lists with the default page a store that holds a
\* receipt of the imam and one of their own, and gets both.
C2_Witness ==
    /\ ListsWithoutCriteria
    /\ resp.op = "get_receipts" /\ resp.args.skip = 0 /\ resp.args.limit = DefaultLimit
    /\ ViewerRole = FINANCE_SECRETARY
    /\ \E r1, r2 \in receipts : r1.uploaded_by = 1 /\ r2.uploaded_by = 2
    /\ resp.body.receipts = receipts

\* C3: whatever criteria an imam passes to get_receipts or search_receipts,
\* uploaded_by naming another user included, every receipt returned is the
\* imam's own.
C3_ImamSeesOnlyOwn ==
    (resp.op \in {"get_receipts", "search_receipts"} /\ resp.status = 200 /\ ViewerRole = IMAM)
        => \A r \in resp.body.receipts : r.uploaded_by = resp.viewer

\* The imam asks get_receipts for the receipts of the finance secretary, who
\* has one, and gets none.
C3_Witness ==
    /\ IsOk("get_receipts") /\ ViewerRole = IMAM
    /\ resp.args.uploaded_by = 2
    /\ \E r \in receipts : r.uploaded_by = 2
    /\ \E r \in receipts : r.uploaded_by = 1
    /\ resp.body.receipts = {}

ReportOps ==
    {"get_tally", "get_receipts_by_tag", "get_monthly_breakdown", "get_summary",
     "export_receipts_to_excel", "export_tally_to_excel", "get_chart_data"}

\* C4: a report operation called by an imam ends with 403 and no report data;
\* called by a finance secretary or an auditor it is let through.
C4_ReportsDeniedToImam ==
    resp.op \in ReportOps =>
        IF ViewerRole = IMAM
        THEN resp.status = 403 /\ resp.body = NoBody
        ELSE resp.status \in {200, 404}

\* The imam asks for the chart of a store that holds a receipt and is refused.
C4_Witness ==
    /\ resp.op = "get_chart_data" /\ ViewerRole = IMAM
    /\ receipts # {}
    /\ resp.status = 403

\* The tag filter of resp was given and names no stored tag
TagFilterUnresolved ==
    \/ /\ resp.op = "get_tally"
       /\ resp.args.tag_id # 0 \/ resp.args.tag_name # ""
       /\ IF resp.args.tag_id # 0
          THEN \A t \in tags : t.id # resp.args.tag_id
          ELSE \A t \in tags : t.name # resp.args.tag_name
    \/ /\ resp.op = "search_receipts"
       /\ resp.args.tag_name # ""
       /\ \A t \in tags : ~ILikeContains(t.name, resp.args.tag_name)
    \/ /\ resp.op \in {"export_receipts_to_excel", "export_tally_to_excel"}
       /\ resp.args.tag_name # ""
       /\ \A t \in tags : t.name # resp.args.tag_name

\* C5 as stated: a tag filter that resolves to no tag makes get_tally,
\* search_receipts and the two exports succeed with an empty matching set.
C5_UnknownTagMatchesNothing ==
    TagFilterUnresolved =>
        /\ resp.status = 200
        /\ resp.op = "get_tally" =>
              /\ resp.body.total_amount = 0 /\ resp.body.receipt_count = 0
              /\ resp.body.by_category = <<>> /\ resp.body.by_payment_mode = <<>>
        /\ resp.op = "search_receipts" => resp.body.receipts = {}
        /\ resp.op = "export_receipts_to_excel" => resp.body.rows = {} /\ resp.body.total = 0
        /\ resp.op = "export_tally_to_excel" =>
              /\ resp.body.total_amount = 0 /\ resp.body.receipt_count = 0
              /\ resp.body.by_category = <<>>

\* Strings that are no payment mode in any spelling
UnknownModes == {"zakat", "bitcoin"}

\* C6: a payment_mode string that matches no member makes get_receipts and
\* search_receipts end with 400, a detail that lists the five modes, and no
\* receipts.
C6_UnknownModeRejected ==
    (resp.op \in {"get_receipts", "search_receipts"} /\ resp.args.payment_mode \in UnknownModes)
        => /\ resp.status = 400
           /\ resp.detail.expected = <<"cash", "card", "bank_transfer", "cheque", "other">>
           /\ resp.detail.got = resp.args.payment_mode
           /\ resp.body = NoBody

\* search_receipts for payment mode "bitcoin" over a store with a receipt paid
\* in mode other is refused.
C6_Witness ==
    /\ resp.op = "search_receipts" /\ resp.args.payment_mode = "bitcoin"
    /\ \E r \in receipts : r.payment_mode = "other"
    /\ resp.status = 400

InYear(year) == { r \in receipts : r.receipt_date.year = year }
InMonth(year, month) == { r \in InYear(year) : r.receipt_date.month = month }

MonthlyShape ==
    LET months == resp.body.months
        year == resp.args.year
    IN /\ \A i \in 1..(Len(months) - 1) : months[i].month < months[i + 1].month
       /\ { months[i].month : i \in DOMAIN months } = { r.receipt_date.month : r \in InYear(year) }
       /\ \A i \in DOMAIN months :
            months[i].count = Cardinality(InMonth(year, months[i].month))

\* C7 as stated: one entry per month of the year with receipts, none for the
\* others, strictly ascending; each entry's total and count are the sum and
\* number of the month's receipts; total_amount is the sum of the entries' totals.
C7_MonthlyExact ==
    IsOk("get_monthly_breakdown") =>
        LET months == resp.body.months
        IN /\ MonthlyShape
           /\ \A i \in DOMAIN months :
                months[i].total = SumAmount(InMonth(resp.args.year, months[i].month))
           /\ resp.body.total_amount = SeqTotals(months)

\* C7 amended: the same entries in the same order with the same counts; each
\* entry's total is the sum of the month's receipts rounded to two decimals and
\* total_amount is the sum of the year's receipts rounded to two decimals.
C7_MonthlyRounded ==
    IsOk("get_monthly_breakdown") =>
        LET months == resp.body.months
        IN /\ MonthlyShape
           /\ \A i \in DOMAIN months :
                months[i].total = Round2(SumAmount(InMonth(resp.args.year, months[i].month)))
           /\ resp.body.total_amount = Round2(SumAmount(InYear(resp.args.year)))

\* The breakdown of 2024 over receipts of March and July only is [3, 7].
C7_Witness ==
    /\ IsOk("get_monthly_breakdown") /\ resp.args.year = 2024
    /\ { r.receipt_date.month : r \in InYear(2024) } = {3, 7}
    /\ Len(resp.body.months) = 2
    /\ resp.body.months[1].month = 3 /\ resp.body.months[2].month = 7

\* The characters in code point order, and the order of strings by it
CodePoints ==
    <<" ", "%", "-", "/">> \o Digits \o UpperLetters \o <<"_">> \o LowerLetters
CharRank == [c \in AllChars |-> IndexIn(CodePoints, c)]

RECURSIVE CharsLess(_, _)
CharsLess(a, b) ==
    IF b = <<>> THEN FALSE
    ELSE IF a = <<>> THEN TRUE
    ELSE IF Head(a) # Head(b) THEN CharRank[Head(a)] < CharRank[Head(b)]
    ELSE CharsLess(Tail(a), Tail(b))

StrLess(a, b) == CharsLess(Chars[a], Chars[b])

\* descending by total, equal totals by ascending key
Ranked(keys, totals) ==
    \A i, j \in DOMAIN keys :
        i < j => \/ totals[i] > totals[j]
                 \/ totals[i] = totals[j] /\ StrLess(keys[i], keys[j])

KeysOf(groups) == [i \in DOMAIN groups |-> groups[i].key]
TotalsOf(groups) == [i \in DOMAIN groups |-> groups[i].total]

\* C8 as stated: the ranked breakdowns of get_tally, get_summary and
\* get_chart_data are in descending order of total, equal totals in ascending
\* order of key.
C8_RankedWithTieBreak ==
    /\ IsOk("get_tally") =>
          /\ Ranked(KeysOf(resp.body.by_category), TotalsOf(resp.body.by_category))
          /\ Ranked(KeysOf(resp.body.by_payment_mode), TotalsOf(resp.body.by_payment_mode))
    /\ IsOk("get_summary") =>
          Ranked(KeysOf(resp.body.top_categories), TotalsOf(resp.body.top_categories))
    /\ (IsOk("get_chart_data") /\ resp.body # NoDataMarker) =>
          Ranked([i \in DOMAIN resp.body.top_categories |-> resp.body.top_categories[i].category],
                 [i \in DOMAIN resp.body.top_categories |-> resp.body.top_categories[i].amount])

\* The request of resp matches no stored receipt
NothingMatches ==
    \/ /\ resp.op = "get_tally"
       /\ resp.args.tag_id = 0 /\ resp.args.tag_name = ""
       /\ \A r \in receipts :
            \/ resp.args.month # 0 /\ r.receipt_date.month # resp.args.month
            \/ resp.args.year # 0 /\ r.receipt_date.year # resp.args.year
    \/ resp.op = "get_monthly_breakdown" /\ InYear(resp.args.year) = {}
    \/ resp.op = "get_summary" /\ receipts = {}

\* C9: on an empty matching set get_tally, get_monthly_breakdown and
\* get_summary succeed with total 0, count 0 and no groups, get_summary with
\* average 0.
C9_EmptyIsZero ==
    NothingMatches =>
        /\ resp.status = 200
        /\ resp.op = "get_tally" =>
              /\ resp.body.total_amount = 0 /\ resp.body.receipt_count = 0
              /\ resp.body.by_category = <<>> /\ resp.body.by_payment_mode = <<>>
        /\ resp.op = "get_monthly_breakdown" =>
              resp.body.total_amount = 0 /\ resp.body.months = <<>>
        /\ resp.op = "get_summary" =>
              /\ resp.body.total_amount = 0 /\ resp.body.total_receipts = 0
              /\ resp.body.average_receipt = 0 /\ resp.body.top_categories = <<>>

\* A tally whose month and year filters match none of the two stored receipts.
C9_Witness ==
    /\ IsOk("get_tally") /\ NothingMatches
    /\ resp.args.month # 0 /\ resp.args.year # 0
    /\ Cardinality(receipts) = 2

ChartMatching == FilterYear(FilterMonth(receipts, resp.args.month), resp.args.year)

\* C10 as stated: get_chart_data and export_tally_to_excel never fail with a
\* division by zero; the chart of an empty filtered set is the no-data marker,
\* and a non-empty set whose amounts sum to 0 gives percentages of 0.
C10_NoDivisionByZero ==
    /\ resp.op = "export_tally_to_excel" =>
          /\ resp.status = 200
          /\ resp.body.total_amount = 0 =>
                \A i \in DOMAIN resp.body.by_category : resp.body.by_category[i].percentage = 0
    /\ resp.op = "get_chart_data" =>
          /\ resp.status = 200
          /\ ChartMatching = {} => resp.body = NoDataMarker
          /\ (ChartMatching # {} /\ SumAmount(ChartMatching) = 0) =>
                \A i \in DOMAIN resp.body.top_categories :
                    resp.body.top_categories[i].percentage = 0

\* C11 as stated: whatever other requests are served between the queries of
\* one get_tally, export_tally_to_excel or get_chart_data computation, the
\* total, the count and every breakdown of its result describe one record set:
\* the breakdowns' totals add up to the total and their counts to the count.
C11_ReportDescribesOneSnapshot ==
    /\ IsOk("get_tally") =>
          /\ resp.body.total_amount = Round2(SeqTotals(resp.body.by_category))
          /\ resp.body.total_amount = Round2(SeqTotals(resp.body.by_payment_mode))
          /\ resp.body.receipt_count = SeqCounts(resp.body.by_category)
          /\ resp.body.receipt_count = SeqCounts(resp.body.by_payment_mode)
    /\ IsOk("export_tally_to_excel") =>
          /\ resp.body.total_amount = SeqTotals(resp.body.by_category)
          /\ resp.body.receipt_count = SeqCounts(resp.body.by_category)
    /\ (IsOk("get_chart_data") /\ resp.body # NoDataMarker) =>
          /\ resp.body.stats.total_amount = Round2(SumSeq(resp.body.pie_chart_category.data))
          /\ resp.body.stats.total_amount = Round2(SumSeq(resp.body.pie_chart_payment.data))

ReadingOps ==
    ReportOps \cup {"get_receipts", "search_receipts"}

\* C12: a step that ends a report, export, listing or search request, with
\* success or with an error, leaves the users, receipts, tags and receipt-tag
\* associations (and the id counters) as they were.
C12_ReadsLeaveStoreUnchanged ==
    [][resp'.op \in ReadingOps =>
          /\ users' = users /\ receipts' = receipts
          /\ tags' = tags /\ receipt_tags' = receipt_tags
          /\ next_receipt_id' = next_receipt_id /\ next_tag_id' = next_tag_id]_vars

\* get_receipts_by_tag has answered 404 over a store that holds a receipt and
\* a tag.
C12_Witness ==
    /\ resp.op = "get_receipts_by_tag" /\ resp.status = 404
    /\ receipts # {} /\ tags # {}

\* C13 as stated: every stored receipt has amount >= 0 and a payment_mode that
\* is one of the five enumeration members.
C13_StoredReceiptsValid ==
    \A r \in receipts :
        /\ r.amount >= 0
        /\ r.payment_mode \in {"cash", "card", "bank_transfer", "cheque", "other"}

RECURSIVE SumPercentages(_)
SumPercentages(entries) ==
    IF entries = <<>> THEN 0
    ELSE Head(entries).percentage + SumPercentages(Tail(entries))

\* C14 as stated: in a non-empty chart the percentages of top_categories (in
\* tenths of a percent) add up to at most 100.0 and a rounding step, and to
\* exactly 100.0 when the filtered receipts have five categories or fewer.
C14_PercentagesAddUp ==
    (IsOk("get_chart_data") /\ resp.body # NoDataMarker) =>
        LET total == SumPercentages(resp.body.top_categories)
        IN /\ total <= 1001
           /\ Cardinality({ r.category : r \in ChartMatching }) <= 5 => total = 1000

\* Case-folded, with space, hyphen and underscore flattened to one separator
Normalized(cs) ==
    [i \in DOMAIN cs |-> IF cs[i] \in {"-", "_", " "} THEN "_" ELSE LowerChar[cs[i]]]

MembersNamedBy(pm_str) ==
    { i \in DOMAIN PaymentMode :
        Normalized(Strip(Chars[pm_str])) = Normalized(Chars[PaymentMode[i]]) }

\* C15 as stated: a payment_mode string whose normalized form is that of
\* exactly one member is accepted by get_receipts and search_receipts and
\* selects the receipts of that member; only the others are rejected.
C15_NormalizedSpellingsAccepted ==
    (resp.op \in {"get_receipts", "search_receipts"} /\ resp.args.payment_mode # "") =>
        LET members == MembersNamedBy(resp.args.payment_mode)
        IN IF Cardinality(members) = 1
           THEN /\ resp.status = 200
                /\ \A r \in resp.body.receipts :
                      \E i \in members : r.payment_mode = PaymentMode[i]
           ELSE resp.status = 400

\* The instants the date strings of the requests denote; NoDate for the
\* strings that denote none
BoundOf(date_string) ==
    CASE date_string = "2024-03-01" -> [year |-> 2024, month |-> 3, day |-> 1, hour |-> 0]
      [] date_string = "2024-07-15" -> [year |-> 2024, month |-> 7, day |-> 15, hour |-> 0]
      [] date_string = "2025-07-01" -> [year |-> 2025, month |-> 7, day |-> 1, hour |-> 0]
      [] OTHER -> NoDate

Instant(d) == ((d.year * 12 + d.month) * 31 + d.day) * 24 + d.hour

OnlyDatesGiven ==
    /\ resp.op = "search_receipts"
    /\ resp.args.store_name = "" /\ resp.args.category = "" /\ resp.args.tag_name = ""
    /\ resp.args.min_amount = {} /\ resp.args.max_amount = {} /\ resp.args.payment_mode = ""

\* C16: search_receipts with date bounds answers 200 whatever the strings
\* are; a bound that does not parse restricts nothing, a bound that parses
\* keeps exactly the viewer's receipts with receipt_date >= start and
\* receipt_date <= end.
C16_DateBoundsLenientInclusive ==
    OnlyDatesGiven =>
        LET start == BoundOf(resp.args.start_date)
            end == BoundOf(resp.args.end_date)
            own == IF ViewerRole = IMAM
                   THEN { r \in receipts : r.uploaded_by = resp.viewer }
                   ELSE receipts
        IN /\ resp.status = 200
           /\ resp.body.receipts =
                 { r \in own :
                     /\ start # NoDate => Instant(r.receipt_date) >= Instant(start)
                     /\ end # NoDate => Instant(r.receipt_date) <= Instant(end) }

\* A search from "yesterday" to 2024-03-01 returns the receipt dated
\* 2024-03-01 and not the one dated later.
C16_Witness ==
    /\ OnlyDatesGiven /\ resp.status = 200
    /\ resp.args.start_date = "yesterday" /\ resp.args.end_date = "2024-03-01"
    /\ Cardinality(receipts) = 2
    /\ Cardinality(resp.body.receipts) = 1
    /\ \A r \in resp.body.receipts : r.receipt_date = BoundOf("2024-03-01")

\* The criteria of a search with every criterion but the named one absent
Absent ==
    [store_name |-> "", category |-> "", tag_name |-> "", min_amount |-> {},
     max_amount |-> {}, start_date |-> "", end_date |-> "", payment_mode |-> ""]
Alone(c, field) == [Absent EXCEPT ![field] = c[field]]

\* The receipts a search by the viewer of resp under criteria c returns when it
\* resolves the tag criterion to tag
SearchResult(c, tag) ==
    SearchFiltered(Scope(UserById(resp.viewer), receipts), c, tag,
                   parse_payment_mode(c.payment_mode))

\* C17 as stated: a search repeated with the same criteria by the same viewer
\* on an unchanged store returns the same receipts, and the receipts returned
\* are those returned under each criterion alone, intersected.
C17_SearchDeterministicIntersection ==
    /\ [](IsOk("search_receipts") =>
            \A tag \in First(IF resp.args.tag_name # ""
                             THEN SearchTagRows(resp.args.tag_name) ELSE {}) :
               SearchResult(resp.args, tag) =
                  { r \in receipts :
                      \A field \in DOMAIN Absent :
                          r \in SearchResult(Alone(resp.args, field), tag) })
    /\ [][(/\ IsOk("search_receipts")
           /\ resp'.op = "search_receipts" /\ resp'.status = 200
           /\ resp'.viewer = resp.viewer /\ resp'.args = resp.args
           /\ receipts' = receipts /\ tags' = tags /\ receipt_tags' = receipt_tags)
          => resp'.body = resp.body]_vars

\* C18 as stated: filters_applied of a tally has an entry for month, for year
\* and for the tag exactly when that criterion was supplied and the receipts
\* tallied were restricted by it.
C18_FiltersAppliedEchoApplied ==
    IsOk("get_tally") =>
        LET applied == resp.body.filters_applied
            args == resp.args
            named == IF args.tag_id # 0
                     THEN { t \in tags : t.id = args.tag_id }
                     ELSE { t \in tags : t.name = args.tag_name }
            tallied == { r \in receipts :
                           /\ applied.month # 0 => r.receipt_date.month = applied.month
                           /\ applied.year # 0 => r.receipt_date.year = applied.year
                           /\ (applied.tag_id # 0 \/ applied.tag_name # "" \/ applied.tag # "")
                                 => \E t \in named : <<r.id, t.id>> \in receipt_tags }
        IN /\ applied.month = args.month
           /\ applied.year = args.year
           /\ (applied.tag_id # 0 \/ applied.tag_name # "" \/ applied.tag # "")
                 => (args.tag_id # 0 \/ args.tag_name # "")
           /\ resp.body.receipt_count = Cardinality(tallied)
           /\ resp.body.total_amount = Round2(SumAmount(tallied))

\* colours paired with labels, cycling through the palette
PairedCyclically(pie, palette) ==
    /\ Len(pie.colors) = Len(pie.labels)
    /\ \A i \in DOMAIN pie.labels :
          pie.colors[i] = palette[((i - 1) % Len(palette)) + 1]

\* C19 as stated: in a non-empty chart both pies have one colour per label,
\* label i with colour (i mod palette length) of its palette.
C19_ColoursCycle ==
    (IsOk("get_chart_data") /\ resp.body # NoDataMarker) =>
        /\ PairedCyclically(resp.body.pie_chart_category, category_colors)
        /\ PairedCyclically(resp.body.pie_chart_payment, payment_colors)

\* the months of a set, in calendar order
RECURSIVE Ascending(_)
Ascending(ms) ==
    IF ms = {} THEN <<>>
    ELSE LET m == CHOOSE x \in ms : \A y \in ms : x <= y
         IN <<m>> \o Ascending(ms \ {m})

MonthsWithData(year) ==
    Ascending({ r.receipt_date.month : r \in { x \in receipts : x.receipt_date.year = year } })

\* C20 as stated: in a non-empty chart bar_chart_monthly is null without a
\* year, and with a year it has one point per month that has data, in
\* ascending calendar-month order.
C20_MonthlySeriesAscending ==
    (IsOk("get_chart_data") /\ resp.body # NoDataMarker) =>
        IF resp.args.year = 0
        THEN resp.body.bar_chart_monthly = NoTrend
        ELSE /\ resp.body.bar_chart_monthly # NoTrend
             /\ resp.body.bar_chart_monthly.labels =
                  [i \in DOMAIN MonthsWithData(resp.args.year) |->
                      ShortMonthNames[MonthsWithData(resp.args.year)[i]]]

\* the receipt, tag pair the request that has just been answered names
NamedPair == <<resp'.args.receipt_id, resp'.args.tag_id>>
NamesMissing ==
    \/ \A r \in receipts : r.id # resp'.args.receipt_id
    \/ \A t \in tags : t.id # resp'.args.tag_id

\* C21: a receipt never holds a tag twice: an assignment succeeds only for a
\* pair that is not yet stored and adds exactly that pair, a removal succeeds
\* only for a stored pair and removes exactly that pair; assigning an assigned
\* tag, unassigning an unassigned one, or naming a missing receipt or tag is
\* answered with an error and leaves every receipt's tags as they were.
C21_AssignmentsKeepTagSets ==
    [][/\ resp'.op = "assign_tag_to_receipt" =>
            IF resp'.status = 200
            THEN /\ NamedPair \notin receipt_tags
                 /\ receipt_tags' = receipt_tags \cup {NamedPair}
            ELSE /\ resp'.status >= 400
                 /\ receipt_tags' = receipt_tags
       /\ resp'.op = "unassign_tag_from_receipt" =>
            IF resp'.status = 200
            THEN /\ NamedPair \in receipt_tags
                 /\ receipt_tags' = receipt_tags \ {NamedPair}
            ELSE /\ resp'.status >= 400
                 /\ receipt_tags' = receipt_tags
       /\ (resp'.op = "assign_tag_to_receipt"
             /\ (NamesMissing \/ NamedPair \in receipt_tags)) => resp'.status >= 400
       /\ (resp'.op = "unassign_tag_from_receipt"
             /\ (NamesMissing \/ NamedPair \notin receipt_tags)) => resp'.status >= 400
      ]_vars

\* The finance secretary assigns a tag again to a receipt that has it.
C21_Witness ==
    /\ resp.op = "assign_tag_to_receipt" /\ resp.status = 400
    /\ resp.detail = "Tag is already assigned to this receipt"
    /\ <<resp.args.receipt_id, resp.args.tag_id>> \in receipt_tags

\* a step that answers a request (not the lookup a create_tag goes on from)
Answers == ~(inflight = Idle /\ inflight' # Idle)

\* C22: no two stored tags have the same name, also when the lookup and the
\* insert of one create_tag have other create_tag requests between them; a
\* create_tag answered while its name is stored is answered with an error
\* and adds no tag.
C22_TagNamesUnique ==
    /\ [](\A t1 \in tags, t2 \in tags : t1.name = t2.name => t1 = t2)
    /\ [][(/\ Answers
           /\ resp'.op = "create_tag"
           /\ \E t \in tags : t.name = resp'.args.name)
          => (resp'.status >= 400 /\ tags' = tags)]_vars

\* A create_tag whose name was free at its lookup and stored at its insert.
C22_Witness ==
    /\ resp.op = "create_tag" /\ resp.status = 500
    /\ \E t \in tags : t.name = resp.args.name
    /\ inflight = Idle

\* C23 as stated: a monthly trend that is returned adds up to the total of
\* the statistics and to the total of the category pie, whatever month and
\* year filters the request carries.
C23_TrendReconciles ==
    (/\ IsOk("get_chart_data")
     /\ resp.body # NoDataMarker
     /\ resp.body.bar_chart_monthly # NoTrend) =>
        /\ SumSeq(resp.body.bar_chart_monthly.data) = resp.body.stats.total_amount
        /\ SumSeq(resp.body.bar_chart_monthly.data) = SumSeq(resp.body.pie_chart_category.data)

\* the operations that read or add receipt data
ReceiptDataOps ==
    ReportOps \cup {"upload_receipt", "get_receipts", "get_receipt", "search_receipts"}

\* a request has just been answered to a user whose is_active is false
AnsweredToInactive ==
    /\ users' = users
    /\ \E u \in users : u.id = resp'.viewer /\ ~u.is_active

\* C24 as stated: a report operation, get_receipts, search_receipts,
\* get_receipt or upload_receipt called by a user whose is_active is false is
\* rejected and adds no receipt.
C24_InactiveUserRejected ==
    [][(AnsweredToInactive /\ resp'.op \in ReceiptDataOps)
          => (resp'.status >= 400 /\ receipts' = receipts)]_vars

\* The half of C24 the code keeps: every report operation rejects the user.
C24_ReportsRejectInactive ==
    [][(AnsweredToInactive /\ resp'.op \in ReportOps)
          => (resp'.status = 400 /\ resp'.body = NoBody)]_vars

====
